---- MODULE Spec2Model ----
(***************************************************************************)
(* Verse-reference parsing, multi-version verse assembly, row rendering    *)
(* with colour banding, and scroll-driven pagination of the projected      *)
(* Bible page (wx_projector).                                              *)
(*                                                                         *)
(* Strings are sequences of one-character strings, so that formatting      *)
(* (f"{chapter}:{start}-{end}") and parsing (the regular expressions of    *)
(* parse_verse_reference) are computed character by character.             *)
(***************************************************************************)
EXTENDS Integers, Sequences, FiniteSets, TLC

(***************************************************************************)
(* Bounds of the model                                                     *)
(***************************************************************************)
\* longest reference string enumerated for the parser
MaxRefLen == 5
\* largest chapter / verse number typed in the generated reference forms
MaxNum == 12
\* most lines a chapter file of the engine's corpus holds
MaxVerses == 2

\* the longest verse list handed to the renderer
MaxListLen == 3
\* most pagination commands and scripts under way when the operator projects again
MaxInFlight == 2

(***************************************************************************)
(* Characters and strings                                                  *)
(***************************************************************************)
Digits == <<"0", "1", "2", "3", "4", "5", "6", "7", "8", "9">>

\* the character class \d
DigitClass == {Digits[i] : i \in 1..10}

\* the letters of the model's alphabet, standing for [A-Za-z一-鿿]
Letters == {"J", "o", "h", "n", "j", "G", "e", "X"}

\* the character class [A-Za-z0-9一-鿿] of pattern 1's book group
BookClass == Letters \cup DigitClass

\* the character class \s
SpaceClass == {" "}

DigitVal(c) == (CHOOSE i \in 1..10 : Digits[i] = c) - 1

\* int(s) for a string of decimal digits
RECURSIVE ToInt(_)
ToInt(s) ==
    IF Len(s) = 0 THEN 0
    ELSE 10 * ToInt(SubSeq(s, 1, Len(s) - 1)) + DigitVal(s[Len(s)])

\* str(n) for a natural number
RECURSIVE StrNat(_)
StrNat(n) ==
    IF n < 10 THEN <<Digits[n + 1]>>
    ELSE StrNat(n \div 10) \o <<Digits[(n % 10) + 1]>>

\* str(n) / f"{n}" for an integer
Str(n) == IF n < 0 THEN <<"-">> \o StrNat(0 - n) ELSE StrNat(n)

\* f"{c}{sep}{v}" and f"{c}{sep}{v}-{w}": the strings "<chapter>:<verse>[-<verse2>]"
\* and "<chapter> <verse>[-<verse2>]"
TypedForm(sep, c, v) == Str(c) \o <<sep>> \o Str(v)

TypedRangeForm(sep, c, v, w) == Str(c) \o <<sep>> \o Str(v) \o <<"-">> \o Str(w)

\* length of the longest prefix of s whose characters are all in class P
RECURSIVE PrefixLen(_, _)
PrefixLen(s, P) ==
    IF Len(s) = 0 \/ s[1] \notin P THEN 0
    ELSE 1 + PrefixLen(Tail(s), P)

Drop(s, n) == SubSeq(s, n + 1, Len(s))

Take(s, n) == SubSeq(s, 1, n)

\* str.strip()
RECURSIVE LStrip(_)
LStrip(s) == IF Len(s) > 0 /\ s[1] \in SpaceClass THEN LStrip(Tail(s)) ELSE s

RECURSIVE RStrip(_)
RStrip(s) ==
    IF Len(s) > 0 /\ s[Len(s)] \in SpaceClass THEN RStrip(Take(s, Len(s) - 1)) ELSE s

Strip(s) == RStrip(LStrip(s))

(***************************************************************************)
(* utils/parsers.py: VerseReference and parse_verse_reference              *)
(***************************************************************************)
\* Python's None for an Optional[int] field (typed numbers are never negative)
None == -1

\* Python's None / empty string for an Optional[str] book ("not current_book")
NoBook == <<>>

\* parse_verse_reference returning None
ParseFailure ==
    [ok |-> FALSE, book |-> NoBook, chapter |-> None,
     verse_start |-> None, verse_end |-> None]

VerseReference(book, chapter, verse_start, verse_end) ==
    [ok |-> TRUE, book |-> book, chapter |-> chapter,
     verse_start |-> verse_start, verse_end |-> verse_end]

is_single_verse(r) == r.verse_start # None /\ r.verse_end = None

is_verse_range(r) == r.verse_start # None /\ r.verse_end # None

is_entire_chapter(r) == r.chapter # None /\ r.verse_start = None

\* a failed match of one of the patterns
NoMatch == [ok |-> FALSE, chapter |-> None, verse_start |-> None, verse_end |-> None]

\* (\d+)(?:-(\d+))?$ on t, whose leading digits are d characters long
MatchVersesAt(t, d) ==
    IF d = 0 THEN NoMatch
    ELSE IF d = Len(t)
    THEN [ok |-> TRUE, chapter |-> None, verse_start |-> ToInt(t), verse_end |-> None]
    ELSE IF t[d + 1] = "-" /\ d + 1 < Len(t)
            /\ PrefixLen(Drop(t, d + 1), DigitClass) = Len(t) - d - 1
    THEN [ok |-> TRUE, chapter |-> None, verse_start |-> ToInt(Take(t, d)),
          verse_end |-> ToInt(Drop(t, d + 1))]
    ELSE NoMatch

\* (\d+)(?:-(\d+))?$ : the verse part shared by patterns 1, 2 and 3
MatchVerses(t) == MatchVersesAt(t, PrefixLen(t, DigitClass))

\* (\d+):<verses> on t, whose leading digits are d long and whose verse part matched as v
ChapterColonVerseAt(t, d, v) ==
    IF d > 0 /\ d < Len(t) /\ t[d + 1] = ":" /\ v.ok
    THEN [v EXCEPT !.chapter = ToInt(Take(t, d))]
    ELSE NoMatch

\* ^(\d+):(\d+)(?:-(\d+))?$
MatchChapterColonVerse(t) ==
    ChapterColonVerseAt(t, PrefixLen(t, DigitClass),
                        MatchVerses(Drop(t, PrefixLen(t, DigitClass) + 1)))

\* (\d+)\s+<verses> on t: d leading digits, then w spaces, then the verse part v
ChapterSpaceVerseAt(t, d, w, v) ==
    IF d > 0 /\ w > 0 /\ v.ok
    THEN [v EXCEPT !.chapter = ToInt(Take(t, d))]
    ELSE NoMatch

SpacesAfter(t, d) == PrefixLen(Drop(t, d), SpaceClass)

\* ^(\d+)\s+(\d+)(?:-(\d+))?$
MatchChapterSpaceVerse(t) ==
    ChapterSpaceVerseAt(t, PrefixLen(t, DigitClass),
        SpacesAfter(t, PrefixLen(t, DigitClass)),
        MatchVerses(Drop(t, PrefixLen(t, DigitClass)
                            + SpacesAfter(t, PrefixLen(t, DigitClass)))))

\* <book>\s+<chapter:verses> on ref: b book characters, w spaces, then the match m
Pattern1At(ref, b, w, m) ==
    IF b > 0 /\ w > 0 /\ m.ok
    THEN VerseReference(Take(ref, b), m.chapter, m.verse_start, m.verse_end)
    ELSE ParseFailure

\* Pattern 1: ^([A-Za-z0-9一-鿿]+)\s+(\d+):(\d+)(?:-(\d+))?$
Pattern1(ref) ==
    Pattern1At(ref, PrefixLen(ref, BookClass),
        SpacesAfter(ref, PrefixLen(ref, BookClass)),
        MatchChapterColonVerse(Drop(ref, PrefixLen(ref, BookClass)
                                         + SpacesAfter(ref, PrefixLen(ref, BookClass)))))

\* Pattern 2 without "if not current_book: return None"
Pattern2ResultAnyContext(m, current_book) ==
    VerseReference(current_book, m.chapter, m.verse_start, m.verse_end)

\* Pattern 2: "Chapter:Verse" or "Chapter:Verse-Verse"; the result when it matches
Pattern2Result(m, current_book) ==
    IF current_book = NoBook THEN ParseFailure
    ELSE VerseReference(current_book, m.chapter, m.verse_start, m.verse_end)

\* Pattern 3: "Chapter Verse" or "Chapter Verse-Verse"; the result when it matches
Pattern3Result(m, current_book) ==
    IF current_book = NoBook THEN ParseFailure
    ELSE VerseReference(current_book, m.chapter, m.verse_start, m.verse_end)

\* Pattern 4 taking the number for a verse of chapter 1
Pattern4ResultAsVerse(ref, current_book) ==
    IF current_book = NoBook THEN ParseFailure
    ELSE VerseReference(current_book, 1, ToInt(ref), None)

\* Pattern 4: ^(\d+)$ ; the result when it matches
Pattern4Result(ref, current_book) ==
    IF current_book = NoBook THEN ParseFailure
    ELSE VerseReference(current_book, ToInt(ref), None, None)

\* the cascade of the four patterns on the stripped reference: first match wins
PatternCascade(ref, p1, m2, m3, current_book) ==
    IF Len(ref) = 0 THEN ParseFailure
    ELSE IF p1.ok THEN p1
    ELSE IF m2.ok THEN Pattern2Result(m2, current_book)
    ELSE IF m3.ok THEN Pattern3Result(m3, current_book)
    ELSE IF PrefixLen(ref, DigitClass) = Len(ref) THEN Pattern4Result(ref, current_book)
    ELSE ParseFailure

ParseStripped(ref, current_book) ==
    PatternCascade(ref, Pattern1(ref), MatchChapterColonVerse(ref),
                   MatchChapterSpaceVerse(ref), current_book)

parse_verse_reference(reference, current_book) ==
    ParseStripped(Strip(reference), current_book)

\* str.lower() on the model's alphabet
LowerChar(c) ==
    CASE c = "J" -> "j"
      [] c = "G" -> "g"
      [] c = "X" -> "x"
      [] OTHER -> c

Lower(s) == [i \in 1..Len(s) |-> LowerChar(s[i])]

\* str.startswith
StartsWith(s, prefix) == Len(prefix) <= Len(s) /\ Take(s, Len(prefix)) = prefix

(***************************************************************************)
(* utils/parsers.py: the book metadata table and get_book_id               *)
(***************************************************************************)
\* books_metadata as load_books_metadata returns it: name -> (book_id,
\* chapter_count), in the order of the rows of books.csv
BooksMetadata ==
    << [name |-> <<"J", "o", "h", "n", "1">>, book_id |-> 62, chapters |-> 5],
       [name |-> <<"J", "o", "h", "n">>,      book_id |-> 43, chapters |-> 21],
       [name |-> <<"G", "e", "n">>,           book_id |-> 1,  chapters |-> 50] >>

\* Python's None for the book id (ids are positive)
NoBookId == 0

\* index of the first row satisfying the exact (case-insensitive) match, 0 if none
ExactMatchRow(book_name, metadata) ==
    LET hits == {i \in 1..Len(metadata) : Lower(metadata[i].name) = Lower(book_name)}
    IN  IF hits = {} THEN 0 ELSE CHOOSE i \in hits : \A j \in hits : i <= j

\* rows whose lower-cased name starts with the lower-cased query
PrefixMatchRows(book_name, metadata) ==
    {i \in 1..Len(metadata) : StartsWith(Lower(metadata[i].name), Lower(book_name))}

\* the first matching name, whatever its length
FirstMatchRow(rows, metadata) == CHOOSE i \in rows : \A j \in rows : i <= j

\* matches.sort(key=len) is stable: the first of the shortest names
ShortestMatchRow(rows, metadata) ==
    CHOOSE i \in rows :
        \A j \in rows :
            \/ Len(metadata[i].name) < Len(metadata[j].name)
            \/ Len(metadata[i].name) = Len(metadata[j].name) /\ i <= j

\* the id get_book_id returns given the exact-match row e and the prefix-match rows m
BookIdOf(e, m, metadata) ==
    IF e # 0 THEN metadata[e].book_id
    ELSE IF m # {} THEN metadata[ShortestMatchRow(m, metadata)].book_id
    ELSE NoBookId

get_book_id(book_name, metadata) ==
    BookIdOf(ExactMatchRow(book_name, metadata), PrefixMatchRows(book_name, metadata),
             metadata)

\* get_chapter_count: the chapter count of the first row whose name equals
\* the query case-insensitively, None when there is no such row
get_chapter_count(book_name, metadata) ==
    IF ExactMatchRow(book_name, metadata) # 0
    THEN metadata[ExactMatchRow(book_name, metadata)].chapters
    ELSE None

\* the character class [\d+\s] of the book id group
IdExprClass == DigitClass \cup {"+"} \cup SpaceClass

\* a row "'name':[id_expr, chapters]," of books.csv, given by the text of its
\* three fields
CsvRow(name, id_expr, chapters) == [name |-> name, id_expr |-> id_expr, chapters |-> chapters]

\* the row is found by r"'([^']+)':\s*\[([\d+\s]+),\s*(\d+)\]"
RowMatches(row) ==
    /\ Len(row.name) > 0
    /\ \A i \in 1..Len(row.name) : row.name[i] # "'"
    /\ Len(row.id_expr) > 0
    /\ PrefixLen(row.id_expr, IdExprClass) = Len(row.id_expr)
    /\ Len(row.chapters) > 0
    /\ PrefixLen(row.chapters, DigitClass) = Len(row.chapters)

\* the tokens Python reads in an expression of digits, "+" and spaces:
\* "+" for the operator, the digit string for a number
\* the token of the operator "+"
PlusToken == <<"+">>

RECURSIVE ExprTokens(_)
ExprTokens(s) ==
    IF Len(s) = 0 THEN <<>>
    ELSE IF s[1] \in SpaceClass THEN ExprTokens(Tail(s))
    ELSE IF s[1] = "+" THEN <<PlusToken>> \o ExprTokens(Tail(s))
    ELSE <<Take(s, PrefixLen(s, DigitClass))>> \o ExprTokens(Drop(s, PrefixLen(s, DigitClass)))

\* a decimal integer literal: no leading zero unless every digit is zero
IsIntLiteral(tok) ==
    tok # PlusToken /\ (tok[1] # "0" \/ \A i \in 1..Len(tok) : tok[i] = "0")

\* the tokens form an expression: numbers joined by "+", each number with any
\* number of unary "+" before it
IsExpression(toks) ==
    /\ Len(toks) > 0
    /\ toks[Len(toks)] # PlusToken
    /\ \A i \in 1..Len(toks) : toks[i] # PlusToken => IsIntLiteral(toks[i])
    /\ \A i \in 1..(Len(toks) - 1) : toks[i] = PlusToken \/ toks[i + 1] = PlusToken

RECURSIVE SumOfTokens(_)
SumOfTokens(toks) ==
    IF Len(toks) = 0 THEN 0
    ELSE (IF toks[1] = PlusToken THEN 0 ELSE ToInt(toks[1])) + SumOfTokens(Tail(toks))

\* eval(book_id_expr) given the tokens of the expression: its value, or SyntaxError
EvalTokens(toks) ==
    IF IsExpression(toks) THEN [raised |-> FALSE, value |-> SumOfTokens(toks)]
    ELSE [raised |-> TRUE, value |-> 0]

\* eval(match[1].strip())
EvalIdExpr(id_expr) == EvalTokens(ExprTokens(Strip(id_expr)))

\* books[book_name] = (book_id, chapter_count): a dict keeps the position of
\* a key that is assigned again
SetBook(books, name, book_id, chapters) ==
    IF \E i \in 1..Len(books) : books[i].name = name
    THEN [i \in 1..Len(books) |->
            IF books[i].name = name
            THEN [name |-> name, book_id |-> book_id, chapters |-> chapters]
            ELSE books[i]]
    ELSE Append(books, [name |-> name, book_id |-> book_id, chapters |-> chapters])

\* the loop of load_books_metadata over the matches from row i on, given the
\* value of the id expression of row i; SyntaxError is not caught and ends the load
RECURSIVE LoadRows(_, _, _)
LoadRow(rows, i, books, id) ==
    IF id.raised THEN [raised |-> TRUE, books |-> <<>>]
    ELSE LoadRows(rows, i + 1, SetBook(books, rows[i].name, id.value, ToInt(rows[i].chapters)))

LoadRows(rows, i, books) ==
    IF i > Len(rows) THEN [raised |-> FALSE, books |-> books]
    ELSE IF ~RowMatches(rows[i]) THEN LoadRows(rows, i + 1, books)
    ELSE LoadRow(rows, i, books, EvalIdExpr(rows[i].id_expr))

\* load_books_metadata on a books.csv with the given rows
load_books_metadata(rows) == LoadRows(rows, 1, <<>>)

(***************************************************************************)
(* data/bible_repository.py: chapter files, the chapter cache, get_verse   *)
(***************************************************************************)
\* a line of a chapter file that holds no text (an empty string)
Blank == <<>>

\* get_verse returning None
NoVerse == <<"None">>

\* cache_key = f"{version}_{book_id}_{chapter}"
CacheKey(version, book_id, chapter) == <<version, book_id, chapter>>

\* load_chapter: the cached verses, else the file's lines, else FileNotFoundError
load_chapter(cch, fls, version, book_id, chapter) ==
    LET key == CacheKey(version, book_id, chapter)
    IN  IF key \in DOMAIN cch THEN [ok |-> TRUE, verses |-> cch[key]]
        ELSE IF key \in DOMAIN fls THEN [ok |-> TRUE, verses |-> fls[key]]
        ELSE [ok |-> FALSE, verses |-> <<>>]

\* self.cache after load_chapter has been called for every key of keys
CacheAfter(cch, fls, keys) ==
    LET new == (keys \cap DOMAIN fls) \ DOMAIN cch
    IN  [k \in DOMAIN cch \cup new |-> IF k \in DOMAIN cch THEN cch[k] ELSE fls[k]]

\* verses[verse - 1] without the test 0 < verse: Python counts verse 0 from the end
VerseOfUnguarded(r, verse) ==
    IF r.ok /\ verse = 0 /\ Len(r.verses) > 0 THEN r.verses[Len(r.verses)]
    ELSE IF r.ok /\ 0 < verse /\ verse <= Len(r.verses) THEN r.verses[verse]
    ELSE NoVerse

\* verses[verse - 1] of the loaded chapter r (a 0-indexed list; sequences are 1-indexed)
VerseOf(r, verse) ==
    IF r.ok /\ 0 < verse /\ verse <= Len(r.verses) THEN r.verses[verse]
    ELSE NoVerse

get_verse(cch, fls, version, book_id, chapter, verse) ==
    VerseOf(load_chapter(cch, fls, version, book_id, chapter), verse)

\* len(verses) of the loaded chapter r, 0 on FileNotFoundError
VerseCountOf(r) == IF r.ok THEN Len(r.verses) ELSE 0

get_chapter_verse_count(cch, fls, version, book_id, chapter) ==
    VerseCountOf(load_chapter(cch, fls, version, book_id, chapter))

\* "if verse_text:" : neither None nor the empty string
Truthy(text) == text # NoVerse /\ text # Blank

(***************************************************************************)
(* data/bible_repository.py: reading and decoding a chapter file           *)
(***************************************************************************)
\* self.encodings.get(version, 'utf-8')
EncodingOf(version) == IF version = "cuv" THEN "gb2312" ELSE "utf-8"

\* a second attempt with the encoding that has just failed
FallbackSame(encoding) == encoding

\* fallback_encoding = 'utf-8' if encoding == 'gb2312' else 'gb2312'
FallbackOf(encoding) == IF encoding = "gb2312" THEN "utf-8" ELSE "gb2312"

\* the characters the model names, by code point (str values are compared as
\* strings, so a character is the string of its code point)
Chr ==
    (10 :> "\n") @@ (13 :> "\r") @@ (97 :> "a") @@ (99 :> "c") @@ (233 :> "U+00E9")
    @@ (20013 :> "U+4E2D") @@ (28051 :> "U+6D93") @@ (33541 :> "U+8305")

\* the code points of the two-byte GB2312 characters the model's files hold
Gb2312CodePoint ==
    (<<214, 208>> :> 20013) @@ (<<228, 184>> :> 28051) @@ (<<195, 169>> :> 33541)

\* a UTF-8 continuation byte 10xxxxxx
IsContinuation(bytes, i) == i <= Len(bytes) /\ bytes[i] >= 128 /\ bytes[i] <= 191

\* a decoding that failed with UnicodeDecodeError
DecodeError == [ok |-> FALSE, text |-> <<>>]

\* the decoder has produced code point cp and goes on with the rest
Decoded(cp, rest) ==
    IF rest.ok THEN [ok |-> TRUE, text |-> <<Chr[cp]>> \o rest.text] ELSE DecodeError

\* bytes.decode('utf-8'): one to three bytes per character (the files of the
\* model hold no character of four bytes)
RECURSIVE Utf8Decode(_)
Utf8Decode(bytes) ==
    IF Len(bytes) = 0 THEN [ok |-> TRUE, text |-> <<>>]
    ELSE IF bytes[1] < 128 THEN Decoded(bytes[1], Utf8Decode(Drop(bytes, 1)))
    ELSE IF bytes[1] >= 194 /\ bytes[1] <= 223 /\ IsContinuation(bytes, 2)
    THEN Decoded((bytes[1] - 192) * 64 + (bytes[2] - 128), Utf8Decode(Drop(bytes, 2)))
    ELSE IF /\ bytes[1] >= 224 /\ bytes[1] <= 239
            /\ IsContinuation(bytes, 2) /\ IsContinuation(bytes, 3)
            /\ (bytes[1] = 224 => bytes[2] >= 160)
            /\ (bytes[1] = 237 => bytes[2] <= 159)
    THEN Decoded((bytes[1] - 224) * 4096 + (bytes[2] - 128) * 64 + (bytes[3] - 128),
                 Utf8Decode(Drop(bytes, 3)))
    ELSE DecodeError

\* bytes.decode('gb2312'): a byte below 128, or a lead byte of rows 1-9 and
\* 16-87 followed by a trail byte in A1..FE
RECURSIVE Gb2312Decode(_)
Gb2312Decode(bytes) ==
    IF Len(bytes) = 0 THEN [ok |-> TRUE, text |-> <<>>]
    ELSE IF bytes[1] < 128 THEN Decoded(bytes[1], Gb2312Decode(Drop(bytes, 1)))
    ELSE IF /\ (bytes[1] \in 161..169 \/ bytes[1] \in 176..247)
            /\ Len(bytes) >= 2 /\ bytes[2] \in 161..254
    THEN Decoded(Gb2312CodePoint[<<bytes[1], bytes[2]>>], Gb2312Decode(Drop(bytes, 2)))
    ELSE DecodeError

\* open(chapter_file, 'r', encoding=encoding) and f.readlines(): the text
Decode(bytes, encoding) ==
    IF encoding = "gb2312" THEN Gb2312Decode(bytes) ELSE Utf8Decode(bytes)

\* f.readlines(): the text cut after every newline
RECURSIVE ReadLines(_)
ReadLines(text) ==
    IF Len(text) = 0 THEN <<>>
    ELSE IF \E i \in 1..Len(text) : text[i] = "\n"
    THEN <<Take(text, CHOOSE i \in 1..Len(text) :
                        text[i] = "\n" /\ \A j \in 1..(i - 1) : text[j] # "\n")>>
         \o ReadLines(Drop(text, CHOOSE i \in 1..Len(text) :
                                   text[i] = "\n" /\ \A j \in 1..(i - 1) : text[j] # "\n"))
    ELSE <<text>>

\* line.rstrip('\n\r')
RECURSIVE RStripNewlines(_)
RStripNewlines(line) ==
    IF Len(line) > 0 /\ line[Len(line)] \in {"\n", "\r"}
    THEN RStripNewlines(Take(line, Len(line) - 1))
    ELSE line

\* verses = [line.rstrip('\n\r') for line in f.readlines()]
VersesOfText(text) == [i \in 1..Len(ReadLines(text)) |-> RStripNewlines(ReadLines(text)[i])]

\* the chapter read from a decoded file, or UnicodeDecodeError
ReadResult(d) ==
    IF d.ok THEN [ok |-> TRUE, verses |-> VersesOfText(d.text), error |-> ""]
    ELSE [ok |-> FALSE, verses |-> <<>>, error |-> "UnicodeDecodeError"]

\* the try/except of load_chapter: the declared encoding, and the fallback
\* encoding when that raises UnicodeDecodeError
ReadWithFallback(first, bytes, encoding) ==
    IF first.ok THEN ReadResult(first)
    ELSE ReadResult(Decode(bytes, FallbackOf(encoding)))

\* the chapter file read with the encoding of the version
ReadChapterFile(bytes, version) ==
    ReadWithFallback(Decode(bytes, EncodingOf(version)), bytes, EncodingOf(version))

\* a repository that reads the file on every call
CacheNeverHit(cch, key) == FALSE

\* "if cache_key in self.cache"
CacheHit(cch, key) == key \in DOMAIN cch

\* load_chapter on the bytes on disk: the cached verses, FileNotFoundError,
\* or the file read and decoded
LoadChapterFile(cch, dsk, version, book_id, chapter) ==
    IF CacheHit(cch, CacheKey(version, book_id, chapter))
    THEN [ok |-> TRUE, verses |-> cch[CacheKey(version, book_id, chapter)], error |-> ""]
    ELSE IF CacheKey(version, book_id, chapter) \notin DOMAIN dsk
    THEN [ok |-> FALSE, verses |-> <<>>, error |-> "FileNotFoundError"]
    ELSE ReadChapterFile(dsk[CacheKey(version, book_id, chapter)], version)

\* self.cache[cache_key] = verses, reached when the load r did not raise
CacheWith(cch, key, r) ==
    IF r.ok THEN [k \in DOMAIN cch \cup {key} |-> IF k = key THEN r.verses ELSE cch[k]]
    ELSE cch

\* a handler for the missing file only
CaughtOnlyMissing == {"FileNotFoundError"}

\* "except (FileNotFoundError, UnicodeDecodeError)"
CaughtErrors == {"FileNotFoundError", "UnicodeDecodeError"}

\* what a repository method returns for the loaded chapter r: value when the
\* load did not raise, default when it raised a caught error, else the error
Outcome(r, value, default) ==
    IF r.ok THEN [raised |-> FALSE, value |-> value]
    ELSE IF r.error \in CaughtErrors THEN [raised |-> FALSE, value |-> default]
    ELSE [raised |-> TRUE, value |-> default]

\* the index Python's slice uses for i in a list of length n
SliceIndex(i, n) ==
    IF i < 0 THEN (IF i + n < 0 THEN 0 ELSE i + n)
    ELSE (IF i > n THEN n ELSE i)

\* verses[start_idx:end_idx]
Slice(verses, start_idx, end_idx) ==
    SubSeq(verses, SliceIndex(start_idx, Len(verses)) + 1, SliceIndex(end_idx, Len(verses)))

\* get_verse of the repository, given the loaded chapter r
GetVerseOf(r, verse) == Outcome(r, VerseOf(r, verse), NoVerse)

\* get_verse_range of the repository, given the loaded chapter r
GetVerseRangeOf(r, verse_start, verse_end) ==
    Outcome(r, Slice(r.verses, verse_start - 1, verse_end), <<>>)

\* get_chapter_verse_count of the repository, given the loaded chapter r
GetChapterVerseCountOf(r) == Outcome(r, Len(r.verses), 0)

(***************************************************************************)
(* core/bible_engine.py                                                    *)
(***************************************************************************)
\* "if verse_text: verse_data[version] = verse_text"
WithText(version, text, rest) ==
    IF Truthy(text) THEN <<[k |-> version, t |-> text]>> \o rest ELSE rest

\* the version -> text entries of one verse, in the order of versions
RECURSIVE VerseTexts(_, _, _, _, _, _)
VerseTexts(cch, fls, book_id, chapter, verse, versions) ==
    IF Len(versions) = 0 THEN <<>>
    ELSE WithText(versions[1],
                  get_verse(cch, fls, versions[1], book_id, chapter, verse),
                  VerseTexts(cch, fls, book_id, chapter, verse, Tail(versions)))

\* get_verse_data once the book id is known: {} when the book is unknown
VerseDataOf(cch, fls, book_id, chapter, verse, versions) ==
    IF book_id = NoBookId THEN <<>>
    ELSE VerseTexts(cch, fls, book_id, chapter, verse, versions)

get_verse_data(cch, fls, book_name, chapter, verse, versions) ==
    VerseDataOf(cch, fls, get_book_id(book_name, BooksMetadata), chapter, verse, versions)

\* range(verse_start, verse_end) : the end verse left out
VerseRangeExclusive(verse_start, verse_end) ==
    IF verse_end <= verse_start THEN <<>>
    ELSE [i \in 1..(verse_end - verse_start) |-> verse_start + i - 1]

\* range(verse_start, verse_end + 1)
VerseRange(verse_start, verse_end) ==
    IF verse_end < verse_start THEN <<>>
    ELSE [i \in 1..(verse_end - verse_start + 1) |-> verse_start + i - 1]

\* get_verse_range_data once the book id and the verse numbers are known
RangeDataOf(cch, fls, book_id, chapter, nums, versions) ==
    IF book_id = NoBookId THEN <<>>
    ELSE [i \in 1..Len(nums) |->
            [verse |-> nums[i],
             texts |-> VerseTexts(cch, fls, book_id, chapter, nums[i], versions)]]

get_verse_range_data(cch, fls, book_name, chapter, verse_start, verse_end, versions) ==
    RangeDataOf(cch, fls, get_book_id(book_name, BooksMetadata), chapter,
                VerseRange(verse_start, verse_end), versions)

\* the largest verse count of the chapter among all the versions
ChapterVerseCountMax(cch, fls, book_id, chapter, versions) ==
    CHOOSE n \in {get_chapter_verse_count(cch, fls, versions[i], book_id, chapter) :
                    i \in 1..Len(versions)} :
        \A i \in 1..Len(versions) :
            get_chapter_verse_count(cch, fls, versions[i], book_id, chapter) <= n

\* the verse count get_chapter_data takes the range from
ChapterVerseCount(cch, fls, book_id, chapter, versions) ==
    get_chapter_verse_count(cch, fls, versions[1], book_id, chapter)

\* get_chapter_data once the book id and the verse count are known
ChapterDataOf(cch, fls, book_id, verse_count, chapter, versions) ==
    IF book_id = NoBookId THEN <<>>
    ELSE IF verse_count = 0 THEN <<>>
    ELSE RangeDataOf(cch, fls, book_id, chapter, VerseRange(1, verse_count), versions)

get_chapter_data(cch, fls, book_name, chapter, versions) ==
    ChapterDataOf(cch, fls, get_book_id(book_name, BooksMetadata),
        ChapterVerseCount(cch, fls, get_book_id(book_name, BooksMetadata), chapter, versions),
        chapter, versions)

\* a single-verse list that holds a record even when no translation has text
SingleVerseListAlways(verse, single_verse) ==
    <<[verse |-> verse, texts |-> single_verse]>>

\* the verse list parse_and_get_verses builds for a single-verse reference
SingleVerseList(verse, single_verse) ==
    IF Len(single_verse) > 0 THEN <<[verse |-> verse, texts |-> single_verse]>>
    ELSE <<>>

\* the verse data of the parsed reference p of book id book_id
VersesOfParsed(cch, fls, p, book_id, versions) ==
    IF is_entire_chapter(p)
    THEN ChapterDataOf(cch, fls, book_id,
             ChapterVerseCount(cch, fls, book_id, p.chapter, versions), p.chapter, versions)
    ELSE IF is_verse_range(p)
    THEN RangeDataOf(cch, fls, book_id, p.chapter,
                     VerseRange(p.verse_start, p.verse_end), versions)
    ELSE IF is_single_verse(p)
    THEN SingleVerseList(p.verse_start,
             VerseDataOf(cch, fls, book_id, p.chapter, p.verse_start, versions))
    ELSE <<>>

\* "book = parsed.book or current_book"
BookOfParsed(p, cur_book) == IF p.book # NoBook THEN p.book ELSE cur_book

\* parse_and_get_verses once the reference has been parsed to p
GetVersesOfParsed(cch, fls, p, cur_book, versions) ==
    IF ~p.ok THEN [book |-> NoBook, chapter |-> None, data |-> <<>>]
    ELSE IF BookOfParsed(p, cur_book) = NoBook
    THEN [book |-> NoBook, chapter |-> None, data |-> <<>>]
    ELSE [book |-> BookOfParsed(p, cur_book), chapter |-> p.chapter,
          data |-> VersesOfParsed(cch, fls, p,
                       get_book_id(BookOfParsed(p, cur_book), BooksMetadata), versions)]

parse_and_get_verses(cch, fls, ref, cur_book, versions) ==
    GetVersesOfParsed(cch, fls, parse_verse_reference(ref, cur_book), cur_book, versions)

\* the (version, chapter, verse) triples get_verse_range_data asks the repository for
RangeFetches(book_name, chapter, verse_start, verse_end, versions) ==
    IF get_book_id(book_name, BooksMetadata) = NoBookId THEN {}
    ELSE {<<versions[i], chapter, n>> :
            i \in 1..Len(versions), n \in verse_start..verse_end}

\* the triples get_chapter_data asks the repository for (through get_verse_range_data)
ChapterFetches(cch, fls, book_name, chapter, versions) ==
    RangeFetches(book_name, chapter, 1,
        ChapterVerseCount(cch, fls, get_book_id(book_name, BooksMetadata), chapter, versions),
        versions)

\* the chapter files one get_verse per version loads
VersionKeys(book_id, chapter, versions) ==
    {CacheKey(versions[i], book_id, chapter) : i \in 1..Len(versions)}

\* the chapter files get_verse_range_data loads (one get_verse per verse and version)
RangeKeysOf(book_id, chapter, verse_start, verse_end, versions) ==
    IF book_id = NoBookId \/ verse_end < verse_start THEN {}
    ELSE VersionKeys(book_id, chapter, versions)

\* the chapter files get_verse_data loads
VerseKeysOf(book_id, chapter, versions) ==
    IF book_id = NoBookId THEN {} ELSE VersionKeys(book_id, chapter, versions)

\* the chapter files get_chapter_data loads: the first version's, then the range's
ChapterKeysOf(book_id, verse_count, chapter, versions) ==
    IF book_id = NoBookId THEN {}
    ELSE {CacheKey(versions[1], book_id, chapter)}
         \cup RangeKeysOf(book_id, chapter, 1, verse_count, versions)

\* the chapter files the data of the parsed reference p is loaded from
KeysOfParsed(cch, fls, p, book_id, versions) ==
    IF ~p.ok THEN {}
    ELSE IF is_entire_chapter(p)
    THEN ChapterKeysOf(book_id, ChapterVerseCount(cch, fls, book_id, p.chapter, versions),
                       p.chapter, versions)
    ELSE IF is_verse_range(p)
    THEN RangeKeysOf(book_id, p.chapter, p.verse_start, p.verse_end, versions)
    ELSE IF is_single_verse(p) THEN VerseKeysOf(book_id, p.chapter, versions)
    ELSE {}

\* the chapter files parse_and_get_verses loads
ParseAndGetKeysOf(cch, fls, p, cur_book, versions) ==
    KeysOfParsed(cch, fls, p, get_book_id(BookOfParsed(p, cur_book), BooksMetadata), versions)

ParseAndGetKeys(cch, fls, ref, cur_book, versions) ==
    ParseAndGetKeysOf(cch, fls, parse_verse_reference(ref, cur_book), cur_book, versions)

(***************************************************************************)
(* core/content_renderer.py: a rendered document is the sequence of its    *)
(* .verse-row elements and the bibleState its script starts with           *)
(***************************************************************************)
\* the keys of VERSION_NAMES
VersionNames == {"cuv", "kjv", "nas", "niv", "dby"}

\* version_name.split('(')[1].rstrip(')') : the abbreviation shown as a label
VersionAbbreviation(version) ==
    CASE version = "cuv" -> <<"C", "U", "V">>
      [] version = "kjv" -> <<"K", "J", "V">>
      [] version = "nas" -> <<"N", "A", "S">>
      [] version = "niv" -> <<"N", "I", "V">>
      [] OTHER -> <<"D", "B", "Y">>

\* "version in verse_dict"
HasVersion(verse_dict, version) ==
    \E j \in 1..Len(verse_dict.texts) : verse_dict.texts[j].k = version

\* verse_dict[version]
TextOfVersion(verse_dict, version) ==
    verse_dict.texts[CHOOSE j \in 1..Len(verse_dict.texts) :
                        verse_dict.texts[j].k = version].t

\* 'color-red' if idx % 2 == 0 else 'color-blue'
ColorClass(idx) == IF idx % 2 = 0 THEN "color-red" ELSE "color-blue"

\* one .verse-row: the first version of the list is labelled chapter:verse,
\* the others by their abbreviation (idx counts from 1 here, from 0 in the code)
VerseRow(chapter, verse_dict, versions, idx, color_class) ==
    [label |-> IF idx = 1 THEN TypedForm(":", chapter, verse_dict.verse)
               ELSE VersionAbbreviation(versions[idx]),
     color |-> color_class,
     text |-> TextOfVersion(verse_dict, versions[idx])]

\* the rows of one verse for versions[idx..]: a row per version present in the record
RECURSIVE VerseRows(_, _, _, _, _)
VerseRows(chapter, verse_dict, versions, idx, color_class) ==
    IF idx > Len(versions) THEN <<>>
    ELSE (IF HasVersion(verse_dict, versions[idx])
          THEN <<VerseRow(chapter, verse_dict, versions, idx, color_class)>>
          ELSE <<>>)
         \o VerseRows(chapter, verse_dict, versions, idx + 1, color_class)

\* a colour index that restarts with every batch
ActualIdxOfBatch(start_color_index, verse_idx) == verse_idx

\* actual_idx = start_color_index + verse_idx
ActualIdx(start_color_index, verse_idx) == start_color_index + verse_idx

\* the loop of render_verses_html_only from verse_idx (0-based) on
RECURSIVE HtmlRows(_, _, _, _, _)
HtmlRows(chapter, verse_data, versions, start_color_index, verse_idx) ==
    IF verse_idx >= Len(verse_data) THEN <<>>
    ELSE VerseRows(chapter, verse_data[verse_idx + 1], versions, 1,
                   ColorClass(ActualIdx(start_color_index, verse_idx)))
         \o HtmlRows(chapter, verse_data, versions, start_color_index, verse_idx + 1)

render_verses_html_only(chapter, verse_data, versions, start_color_index) ==
    HtmlRows(chapter, verse_data, versions, start_color_index, 0)

\* the loop of render_bible_verses from verse_idx (0-based) on
RECURSIVE PageRows(_, _, _, _)
PageRows(chapter, verse_data, versions, verse_idx) ==
    IF verse_idx >= Len(verse_data) THEN <<>>
    ELSE VerseRows(chapter, verse_data[verse_idx + 1], versions, 1, ColorClass(verse_idx))
         \o PageRows(chapter, verse_data, versions, verse_idx + 1)

\* the versions present in the first verse, in the order of its keys
RECURSIVE PresentVersions(_, _)
PresentVersions(first_verse, j) ==
    IF j > Len(first_verse.texts) THEN <<>>
    ELSE (IF first_verse.texts[j].k \in VersionNames
          THEN <<first_verse.texts[j].k>> ELSE <<>>)
         \o PresentVersions(first_verse, j + 1)

\* min(verse_numbers) and max(verse_numbers)
MinVerse(verse_data) ==
    CHOOSE n \in {verse_data[i].verse : i \in 1..Len(verse_data)} :
        \A i \in 1..Len(verse_data) : n <= verse_data[i].verse

MaxVerse(verse_data) ==
    CHOOSE n \in {verse_data[i].verse : i \in 1..Len(verse_data)} :
        \A i \in 1..Len(verse_data) : verse_data[i].verse <= n

\* window.bibleState as the script of a rendered page sets it
InitialBibleState(book_name, chapter, start_verse, end_verse, versions) ==
    [book |-> book_name,
     startChapter |-> chapter, startVerse |-> start_verse,
     endChapter |-> chapter, endVerse |-> end_verse,
     maxVerse |-> None,
     versions |-> versions,
     loading |-> FALSE, reachedEnd |-> FALSE, reachedStart |-> FALSE]

\* _render_empty_bible: the "No verse selected" document, without rows or bibleState
EmptyBible ==
    [placeholder |-> TRUE, rows |-> <<>>,
     state |-> InitialBibleState(NoBook, None, None, None, <<>>)]

\* the page render_bible_verses builds for a non-empty verse list
BiblePage(book_name, chapter, verse_data, versions) ==
    [placeholder |-> FALSE,
     rows |-> PageRows(chapter, verse_data, versions, 0),
     state |-> InitialBibleState(book_name, chapter, MinVerse(verse_data),
                                 MaxVerse(verse_data), versions)]

render_bible_verses(book_name, chapter, verse_data) ==
    IF Len(verse_data) = 0 THEN EmptyBible
    ELSE BiblePage(book_name, chapter, verse_data, PresentVersions(verse_data[1], 1))

(***************************************************************************)
(* core/content_renderer.py: the script of a rendered page                 *)
(***************************************************************************)
\* batchSize = isNotScrollable ? 1 : 10
KeyBatchSize == 1

ScrollBatchSize == 10

\* document.documentElement.scrollHeight <= window.innerHeight: the rows of
\* the page fit in the viewport, which holds pg.fit rows
IsNotScrollable(pg) == Len(pg.rows) <= pg.fit

BatchSize(pg) == IF IsNotScrollable(pg) THEN KeyBatchSize ELSE ScrollBatchSize

\* an append request that starts at the last displayed verse
NextStartAtEnd(pg) == pg.state.endVerse

\* nextStart = state.endVerse + 1
NextStart(pg) == pg.state.endVerse + 1

\* state.maxVerse || (state.endVerse + batchSize)
NextEnd(pg) ==
    IF pg.state.maxVerse # None /\ pg.state.maxVerse # 0 THEN pg.state.maxVerse
    ELSE pg.state.endVerse + BatchSize(pg)

\* Math.max(1, prevEnd - (batchSize - 1)) with prevEnd = state.startVerse - 1
PrevStart(pg) ==
    IF pg.state.startVerse - 1 - (BatchSize(pg) - 1) > 1
    THEN pg.state.startVerse - 1 - (BatchSize(pg) - 1)
    ELSE 1

\* firstRow ? firstRow.classList.contains('color-red') : true
FirstRowIsRed(pg) == IF Len(pg.rows) > 0 THEN pg.rows[1].color = "color-red" ELSE TRUE

\* the command loadMoreVerses puts in document.title; the fields it does not
\* send hold the defaults the bridge reads them with
LoadMoreRequest(pg) ==
    [cmd |-> "loadMoreBibleVerses",
     book |-> pg.state.book,
     chapter |-> pg.state.endChapter,
     startVerse |-> NextStart(pg),
     endVerse |-> NextEnd(pg),
     versions |-> pg.state.versions,
     currentRowCount |-> Len(pg.rows),
     firstRowIsRed |-> TRUE,
     batchSize |-> ScrollBatchSize]

\* the command loadPreviousVerses puts in document.title
LoadPreviousRequest(pg) ==
    [cmd |-> "loadPreviousBibleVerses",
     book |-> pg.state.book,
     chapter |-> pg.state.startChapter,
     startVerse |-> PrevStart(pg),
     endVerse |-> pg.state.startVerse - 1,
     versions |-> pg.state.versions,
     currentRowCount |-> 0,
     firstRowIsRed |-> FirstRowIsRed(pg),
     batchSize |-> BatchSize(pg)]

\* "state.loading = true" of loadMoreVerses and loadPreviousVerses
Loading(pg) == [pg EXCEPT !.state.loading = TRUE]

\* loadPreviousVerses at chapter 1, verse 1: "state.reachedStart = true; return"
AtBeginningOfBook(pg) == pg.state.startChapter = 1 /\ pg.state.startVerse = 1

\* existingLabels.includes(newChapter + ':' + verseNum)
LabelDisplayed(pg, chapter, verse) ==
    \E i \in 1..Len(pg.rows) : pg.rows[i].label = TypedForm(":", chapter, verse)

\* "loading = false" and the loading indicator hidden
NotLoading(pg) == [pg EXCEPT !.state.loading = FALSE]

\* appendBibleVerses without the "loading = false" that follows the insertion
appendLeavesLoading(pg, versesHTML, lastVerseNum, newChapter) ==
    IF Len(versesHTML) = 0 \/ LabelDisplayed(pg, newChapter, lastVerseNum)
    THEN NotLoading(pg)
    ELSE [pg EXCEPT !.rows = pg.rows \o versesHTML,
                    !.state.endChapter = newChapter,
                    !.state.endVerse = lastVerseNum]

\* window.appendBibleVerses(versesHTML, lastVerseNum, newChapter)
appendBibleVerses(pg, versesHTML, lastVerseNum, newChapter) ==
    IF Len(versesHTML) = 0 THEN NotLoading(pg)
    ELSE IF LabelDisplayed(pg, newChapter, lastVerseNum) THEN NotLoading(pg)
    ELSE [pg EXCEPT !.rows = pg.rows \o versesHTML,
                    !.state.endChapter = newChapter,
                    !.state.endVerse = lastVerseNum,
                    !.state.loading = FALSE]

\* window.prependBibleVerses(versesHTML, firstVerseNum, newChapter)
prependBibleVerses(pg, versesHTML, firstVerseNum, newChapter) ==
    IF Len(versesHTML) = 0 THEN NotLoading(pg)
    ELSE IF LabelDisplayed(pg, newChapter, firstVerseNum) THEN NotLoading(pg)
    ELSE [pg EXCEPT !.rows = versesHTML \o pg.rows,
                    !.state.startChapter = newChapter,
                    !.state.startVerse = firstVerseNum,
                    !.state.loading = FALSE,
                    !.state.reachedStart =
                        IF newChapter = 1 /\ firstVerseNum = 1 THEN TRUE
                        ELSE pg.state.reachedStart]

(***************************************************************************)
(* bridge_simple.py: the handlers of projectBibleVerse,                    *)
(* loadMoreBibleVerses and loadPreviousBibleVerses                         *)
(***************************************************************************)
\* the first 10 verses of the next chapter, the whole of the previous chapter
NextChapterLastVerse == 10

WholeChapterLastVerse == 999

\* parts[1].replace(' ', '')
RECURSIVE RemoveSpaces(_)
RemoveSpaces(s) ==
    IF Len(s) = 0 THEN <<>>
    ELSE (IF s[1] = " " THEN <<>> ELSE <<s[1]>>) \o RemoveSpaces(Tail(s))

\* parts[0] of split(' ', 1): the characters before the first space of s
BeforeSpace(s) ==
    Take(s, (CHOOSE i \in 1..Len(s) : s[i] = " " /\ \A j \in 1..(i - 1) : s[j] # " ") - 1)

\* "3 8" -> "3:8", "3 8-10" -> "3:8-10": the reference with its first space
\* replaced by a colon when it holds a space and no colon
NormalizeStripped(s) ==
    IF (\E i \in 1..Len(s) : s[i] = " ") /\ ~(\E i \in 1..Len(s) : s[i] = ":")
    THEN BeforeSpace(s) \o <<":">> \o RemoveSpaces(Drop(s, Len(BeforeSpace(s)) + 1))
    ELSE s

NormalizeVerseRef(verse_ref) == NormalizeStripped(Strip(verse_ref))

\* [v for v in verse_data if any(k in v for k in versions)]
FilterTextless(verse_data, versions) ==
    SelectSeq(verse_data, LAMBDA v : \E i \in 1..Len(versions) : HasVersion(v, versions[i]))

\* the verses parse_and_get_verses returns for "chapter:start-end", filtered
RangeWithText(cch, fls, book, chapter, verse_start, verse_end, versions) ==
    FilterTextless(
        parse_and_get_verses(cch, fls, TypedRangeForm(":", chapter, verse_start, verse_end),
                             book, versions).data,
        versions)

\* the append script, and the arguments it calls appendBibleVerses with
AppendScript(req, verse_data, chapter) ==
    [kind |-> "append",
     html |-> render_verses_html_only(chapter, verse_data, req.versions,
                                      req.currentRowCount),
     verse |-> verse_data[Len(verse_data)].verse,
     chapter |-> chapter]

\* end_script: "reachedEnd = true; loading = false"
EndScript(req) ==
    [kind |-> "end", html |-> <<>>, verse |-> None, chapter |-> None]

\* the script loadMoreBibleVerses queues, given the verses of the requested
\* range and those of the start of the next chapter
LoadMoreScript(req, verse_data, next_data) ==
    IF Len(verse_data) > 0 THEN AppendScript(req, verse_data, req.chapter)
    ELSE IF Len(next_data) > 0 THEN AppendScript(req, next_data, req.chapter + 1)
    ELSE EndScript(req)

loadMoreBibleVerses(cch, fls, req) ==
    LoadMoreScript(req,
        RangeWithText(cch, fls, req.book, req.chapter, req.startVerse, req.endVerse,
                      req.versions),
        RangeWithText(cch, fls, req.book, req.chapter + 1, 1, NextChapterLastVerse,
                      req.versions))

\* temp_data[-batch_size:] if len(temp_data) >= batch_size else temp_data
LastBatch(temp_data, batch_size) ==
    IF Len(temp_data) >= batch_size THEN Drop(temp_data, Len(temp_data) - batch_size)
    ELSE temp_data

\* color_start_index of a prepend, "converted to positive modulo"
PrependColorStart(num_rows_to_prepend, first_row_is_red) ==
    IF first_row_is_red THEN (0 - num_rows_to_prepend) % 2
    ELSE (0 - (num_rows_to_prepend - 1)) % 2

\* the prepend script, and the arguments it calls prependBibleVerses with
PrependScript(req, verse_data, chapter) ==
    [kind |-> "prepend",
     html |-> render_verses_html_only(chapter, verse_data, req.versions,
                  PrependColorStart(Len(verse_data) * Len(req.versions),
                                    req.firstRowIsRed)),
     verse |-> verse_data[1].verse,
     chapter |-> chapter]

\* start_script: "reachedStart = true; loading = false"
StartScript(req) ==
    [kind |-> "start", html |-> <<>>, verse |-> None, chapter |-> None]

\* the previous chapter is tried when the range is empty and starts at verse 1
TriesPreviousChapter(req, verse_data) ==
    Len(verse_data) = 0 /\ req.startVerse = 1 /\ req.chapter > 1

\* the script loadPreviousBibleVerses queues, given the verses of the
\* requested range and the last batch of the previous chapter
LoadPreviousScript(req, verse_data, prev_data) ==
    IF Len(verse_data) > 0 THEN PrependScript(req, verse_data, req.chapter)
    ELSE IF TriesPreviousChapter(req, verse_data) /\ Len(prev_data) > 0
    THEN PrependScript(req, prev_data, req.chapter - 1)
    ELSE StartScript(req)

loadPreviousBibleVerses(cch, fls, req) ==
    LoadPreviousScript(req,
        RangeWithText(cch, fls, req.book, req.chapter, req.startVerse, req.endVerse,
                      req.versions),
        LastBatch(RangeWithText(cch, fls, req.book, req.chapter - 1, 1,
                                WholeChapterLastVerse, req.versions),
                  req.batchSize))

\* the chapter files a pagination handler loads: those of the requested
\* range, then those of the neighbouring chapter when it is tried
RangeRefKeys(cch, fls, book, chapter, verse_start, verse_end, versions) ==
    ParseAndGetKeys(cch, fls, TypedRangeForm(":", chapter, verse_start, verse_end),
                    book, versions)

LoadMoreKeysOf(cch, fls, req, verse_data) ==
    RangeRefKeys(cch, fls, req.book, req.chapter, req.startVerse, req.endVerse,
                 req.versions)
    \cup (IF Len(verse_data) > 0 THEN {}
          ELSE RangeRefKeys(cch, fls, req.book, req.chapter + 1, 1,
                            NextChapterLastVerse, req.versions))

LoadPreviousKeysOf(cch, fls, req, verse_data) ==
    RangeRefKeys(cch, fls, req.book, req.chapter, req.startVerse, req.endVerse,
                 req.versions)
    \cup (IF TriesPreviousChapter(req, verse_data)
          THEN RangeRefKeys(cch, fls, req.book, req.chapter - 1, 1,
                            WholeChapterLastVerse, req.versions)
          ELSE {})

(***************************************************************************)
(* State                                                                   *)
(***************************************************************************)
VARIABLES
    reference,      \* parser: the reference string handed to parse_verse_reference
    current_book,   \* parser: the current-book context (NoBook when absent)
    parsed,         \* parser: <<>> before the call, <<result>> after it
    files,          \* the chapter files on disk: (version, book id, chapter) -> lines
    cache,          \* BibleRepository.cache: (version, book id, chapter) -> verses
    eng_in,         \* engine: the arguments the engine calls are made with
    eng_out,        \* engine: what each call made so far returned
    render_in,      \* renderer: the verse list, the split point and the versions
    render_out,     \* renderer: what each render made so far returned
    page,           \* the document in the Bible window's webview: rows and bibleState
    shown,          \* the Bible window's content_type and current_html_hash
    proj_titles,    \* CMD titles set by the page, not yet seen by the Bible window
    main_titles,    \* CMD titles forwarded to the main webview, not yet seen by the bridge
    scripts,        \* scripts the bridge queued with wx.CallAfter for the Bible webview
    books_csv,      \* metadata: the rows of books.csv
    meta_in,        \* metadata: the book name get_book_id is asked for
    meta_out,       \* metadata: what load_books_metadata and get_book_id returned
    disk,           \* repository: the bytes of the chapter files, (version, book id, chapter) -> bytes
    repo_out,       \* repository: the last call made on the repository and its outcome
    visible,        \* the projection windows that are shown (IsShown), by window name
    webviews,       \* the content_type and content of the Hymn and Agenda windows
    update_script,  \* the last update script the bridge queued for the control panel
    timers,         \* how many wx.CallLater(100, ShowFullScreen) calls of a window are pending
    stale           \* history: how many commands and scripts under way were issued by
                    \* a document that the Bible webview no longer holds

parserVars == <<reference, current_book, parsed>>

repoVars == <<files, cache>>

engineVars == <<eng_in, eng_out>>

renderVars == <<render_in, render_out>>

pageVars == <<page, shown, proj_titles, main_titles, scripts, stale>>

metaVars == <<books_csv, meta_in, meta_out>>

storeVars == <<disk, repo_out>>

uiVars == <<visible, webviews, update_script, timers>>

vars == <<reference, current_book, parsed, files, cache, eng_in, eng_out,
          render_in, render_out, page, shown, proj_titles, main_titles, scripts,
          books_csv, meta_in, meta_out, disk, repo_out,
          visible, webviews, update_script, timers, stale>>

\* the value of the variables a specification does not use
ParserIdle == reference = <<>> /\ current_book = NoBook /\ parsed = <<>>

EngineIdle == eng_in = <<>> /\ eng_out = <<>>

RepoIdle == files = <<>> /\ cache = <<>>

RenderIdle == render_in = <<>> /\ render_out = <<>>

MetaIdle == books_csv = <<>> /\ meta_in = <<>> /\ meta_out = <<>>

StoreIdle == disk = <<>> /\ repo_out = <<>>

\* main.py: the three projection windows, by window_name
Windows == {"Bible", "Hymn", "Agenda"}

\* every projection window is hidden by its constructor and holds no content
NoContent ==
    [content_type |-> "None", current_url |-> <<>>, current_html_hash |-> <<>>,
     document |-> <<>>]

UiIdle ==
    /\ visible = {}
    /\ webviews = [w \in {"Hymn", "Agenda"} |-> NoContent]
    /\ update_script = <<>>
    /\ timers = [w \in Windows |-> 0]

\* the Bible webview before any page is set: no rows, no bibleState
NoPage == [loaded |-> FALSE, rows |-> <<>>, state |-> EmptyBible.state, fit |-> 0]

\* content_type = None, current_html_hash = None
NothingShown == [content_type |-> "None", html |-> EmptyBible]

PageIdle ==
    /\ page = NoPage
    /\ shown = NothingShown
    /\ proj_titles = <<>> /\ main_titles = <<>> /\ scripts = <<>>
    /\ stale = 0

(***************************************************************************)
(* SpecParse: parse_verse_reference applied to every short string          *)
(***************************************************************************)
RefAlphabet == {"1", "3", ":", " ", "-", "J"}

RECURSIVE StringsOfLen(_)
StringsOfLen(n) ==
    IF n = 0 THEN {<<>>}
    ELSE {<<c>> \o s : c \in RefAlphabet, s \in StringsOfLen(n - 1)}

RefStrings == UNION {StringsOfLen(n) : n \in 0..MaxRefLen}

\* the typed forms of claims C9 and C10, built from numbers by formatting
Refs2 ==
    {Str(c) \o <<":">> \o Str(v) : c, v \in 0..MaxNum}
    \cup {Str(c) \o <<":">> \o Str(v) \o <<"-">> \o Str(w) : c, v, w \in {0, 3, MaxNum}}

Refs3 ==
    {Str(c) \o <<" ">> \o Str(v) : c, v \in 0..MaxNum}
    \cup {Str(c) \o <<" ">> \o Str(v) \o <<"-">> \o Str(w) : c, v, w \in {0, 3, MaxNum}}

Refs4 == {Str(c) : c \in 0..MaxNum}

ParserBooks == {NoBook, <<"J", "o", "h", "n">>}

InitParse ==
    /\ MetaIdle
    /\ UiIdle
    /\ StoreIdle
    /\ reference \in RefStrings \cup Refs2 \cup Refs3 \cup Refs4
    /\ current_book \in ParserBooks
    /\ parsed = <<>>
    /\ RepoIdle
    /\ EngineIdle
    /\ RenderIdle
    /\ PageIdle

ParseVerseReference ==
    /\ parsed = <<>>
    /\ parsed' = <<parse_verse_reference(reference, current_book)>>
    /\ UNCHANGED <<reference, current_book, metaVars, uiVars, storeVars, repoVars, engineVars, renderVars, pageVars>>

NextParse == ParseVerseReference

SpecParse == InitParse /\ [][NextParse]_vars

\* what claim C9 expects of a typed form: failure without a current book,
\* else the current book and the typed numbers
ExpectedOfTyped(book, c, v, w) ==
    IF book = NoBook THEN ParseFailure ELSE VerseReference(book, c, v, w)

\* every typed form with every current book, and its expected result
TypedFormResults ==
    {<<TypedForm(sep, c, v), b, ExpectedOfTyped(b, c, v, None)>> :
        sep \in {":", " "}, c \in 0..MaxNum, v \in 0..MaxNum, b \in ParserBooks}
    \cup {<<TypedRangeForm(sep[1], c, sep[2], w), b, ExpectedOfTyped(b, c, sep[2], w)>> :
        sep \in {":", " "} \X (0..MaxNum), c \in 0..MaxNum, w \in 0..MaxNum,
        b \in ParserBooks}
    \cup {<<Str(c), b, ExpectedOfTyped(b, c, None, None)>> :
        c \in 0..MaxNum, b \in ParserBooks}

\* the strings of the typed forms (decimal formatting is injective, so each
\* string is the form of exactly one tuple of numbers)
TypedFormStrings == {t[1] : t \in TypedFormResults}

\* C9: every input of the form "<chapter>:<verse>[-<verse2>]",
\* "<chapter> <verse>[-<verse2>]" or bare "<chapter>" fails to parse when
\* current_book is absent, and parses to book = current_book and the typed
\* numbers when current_book is present.
C9_ContextRequirement ==
    (parsed # <<>> /\ reference \in TypedFormStrings) =>
        <<reference, current_book, parsed[1]>> \in TypedFormResults

\* "3:1" and "3 1-3" parsed without a current book: both fail
C9_Witness ==
    /\ parsed # <<>>
    /\ current_book = NoBook
    /\ reference \in {TypedForm(":", 3, 1), TypedRangeForm(" ", 3, 1, 3)}
    /\ ~parsed[1].ok

\* C10: a bare integer n with current_book present parses to an entire-chapter
\* reference (chapter = n, verse_start and verse_end absent, book =
\* current_book), never to a verse number or a book name.
C10_BareNumberIsChapter ==
    (parsed # <<>> /\ current_book # NoBook) =>
      \A n \in 0..MaxNum :
        reference = Str(n) =>
          /\ parsed[1].ok
          /\ is_entire_chapter(parsed[1])
          /\ ~is_single_verse(parsed[1]) /\ ~is_verse_range(parsed[1])
          /\ parsed[1].chapter = n
          /\ parsed[1].verse_start = None /\ parsed[1].verse_end = None
          /\ parsed[1].book = current_book

\* "13" with a current book: chapter 13 of that book
C10_Witness ==
    /\ parsed # <<>>
    /\ current_book # NoBook
    /\ reference = <<"1", "3">>
    /\ is_entire_chapter(parsed[1])
    /\ parsed[1].chapter = 13

(***************************************************************************)
(* SpecEngine: the engine's calls applied to every small corpus and        *)
(* request                                                                 *)
(***************************************************************************)
\* the id of the book whose chapter files the corpus holds ("John")
CorpusBookId == BooksMetadata[2].book_id

\* the text of one verse; it names the verse it is the text of
VerseText(version, book_id, chapter, verse) == <<version, book_id, chapter, verse>>

\* a chapter file: line i holds text where shape[i], and is empty otherwise
ChapterLines(version, book_id, chapter, shape) ==
    [i \in 1..Len(shape) |->
        IF shape[i] THEN VerseText(version, book_id, chapter, i) ELSE Blank]

\* a chapter file is missing, or holds up to MaxVerses lines
FileOptions ==
    {[exists |-> FALSE, shape |-> <<>>]}
    \cup {[exists |-> TRUE, shape |-> sh] :
            sh \in UNION {[1..n -> BOOLEAN] : n \in 0..MaxVerses}}

\* the files of chapter 1 as chosen for "cuv" and "kjv"; chapter 2 exists in "cuv" only
EngineCorpus(fc, fk) ==
    LET keys == (IF fc.exists THEN {CacheKey("cuv", CorpusBookId, 1)} ELSE {})
                \cup (IF fk.exists THEN {CacheKey("kjv", CorpusBookId, 1)} ELSE {})
                \cup {CacheKey("cuv", CorpusBookId, 2)}
    IN  [k \in keys |->
            IF k[3] = 2 THEN ChapterLines(k[1], k[2], 2, <<TRUE>>)
            ELSE ChapterLines(k[1], k[2], 1, IF k[1] = "cuv" THEN fc.shape ELSE fk.shape)]

\* an exact name, a lower-case prefix of it, and a name no row starts with
EngineBooks == {<<"J", "o", "h", "n">>, <<"j", "o">>, <<"X">>}

EngineVersionLists == {<<"cuv">>, <<"cuv", "kjv">>, <<"kjv", "cuv">>}

InitEngine ==
    /\ MetaIdle
    /\ UiIdle
    /\ StoreIdle
    /\ ParserIdle
    /\ RenderIdle
    /\ PageIdle
    /\ \E fc, fk \in FileOptions : files = EngineCorpus(fc, fk)
    /\ cache = <<>>
    /\ eng_in \in [book : EngineBooks, chapter : {1, 2},
                    verse_start : 0..(MaxVerses + 1), verse_end : 0..(MaxVerses + 1),
                    versions : EngineVersionLists]
    /\ eng_out = <<>>

\* the calls are made in this order, each once
EngineCalls == <<"get_chapter_data", "get_verse_range_data", "single", "range">>

NextCall == IF Len(eng_out) < Len(EngineCalls) THEN EngineCalls[Len(eng_out) + 1] ELSE ""

Called(name) == \E i \in 1..Len(eng_out) : EngineCalls[i] = name

Returned(name) == eng_out[CHOOSE i \in 1..Len(eng_out) : EngineCalls[i] = name]

GetChapterData ==
    /\ NextCall = "get_chapter_data"
    /\ eng_out' = Append(eng_out,
          [data |-> get_chapter_data(cache, files, eng_in.book, eng_in.chapter,
                                     eng_in.versions),
           fetched |-> ChapterFetches(cache, files, eng_in.book, eng_in.chapter,
                                      eng_in.versions)])
    /\ cache' = CacheAfter(cache, files,
          ChapterKeysOf(get_book_id(eng_in.book, BooksMetadata),
              ChapterVerseCount(cache, files, get_book_id(eng_in.book, BooksMetadata),
                                eng_in.chapter, eng_in.versions),
              eng_in.chapter, eng_in.versions))
    /\ UNCHANGED <<parserVars, metaVars, uiVars, storeVars, files, eng_in, renderVars, pageVars>>

GetVerseRangeData ==
    /\ NextCall = "get_verse_range_data"
    /\ eng_out' = Append(eng_out,
          [data |-> get_verse_range_data(cache, files, eng_in.book, eng_in.chapter,
                        eng_in.verse_start, eng_in.verse_end, eng_in.versions),
           fetched |-> RangeFetches(eng_in.book, eng_in.chapter,
                        eng_in.verse_start, eng_in.verse_end, eng_in.versions)])
    /\ cache' = CacheAfter(cache, files,
          RangeKeysOf(get_book_id(eng_in.book, BooksMetadata), eng_in.chapter,
                      eng_in.verse_start, eng_in.verse_end, eng_in.versions))
    /\ UNCHANGED <<parserVars, metaVars, uiVars, storeVars, files, eng_in, renderVars, pageVars>>

\* parse_and_get_verses("c:v", book, versions)
SingleRef == TypedForm(":", eng_in.chapter, eng_in.verse_start)

\* parse_and_get_verses("c:v-v", book, versions)
RangeRef == TypedRangeForm(":", eng_in.chapter, eng_in.verse_start, eng_in.verse_start)

ParseAndGetSingle ==
    /\ NextCall = "single"
    /\ eng_out' = Append(eng_out,
          parse_and_get_verses(cache, files, SingleRef, eng_in.book, eng_in.versions))
    /\ cache' = CacheAfter(cache, files,
          ParseAndGetKeys(cache, files, SingleRef, eng_in.book, eng_in.versions))
    /\ UNCHANGED <<parserVars, metaVars, uiVars, storeVars, files, eng_in, renderVars, pageVars>>

ParseAndGetRange ==
    /\ NextCall = "range"
    /\ eng_out' = Append(eng_out,
          parse_and_get_verses(cache, files, RangeRef, eng_in.book, eng_in.versions))
    /\ cache' = CacheAfter(cache, files,
          ParseAndGetKeys(cache, files, RangeRef, eng_in.book, eng_in.versions))
    /\ UNCHANGED <<parserVars, metaVars, uiVars, storeVars, files, eng_in, renderVars, pageVars>>

NextEngine ==
    \/ GetChapterData
    \/ GetVerseRangeData
    \/ ParseAndGetSingle
    \/ ParseAndGetRange

SpecEngine == InitEngine /\ [][NextEngine]_vars

\* the id the requested book resolves to
EngineBookId == get_book_id(eng_in.book, BooksMetadata)

\* the number of lines of a chapter file on disk, 0 when there is no such file
FileLineCount(fls, key) == IF key \in DOMAIN fls THEN Len(fls[key]) ELSE 0

\* the chapter file of the version on disk holds text for the verse
HasText(fls, key, verse) ==
    /\ key \in DOMAIN fls
    /\ 0 < verse /\ verse <= Len(fls[key])
    /\ fls[key][verse] # Blank

\* the versions of the request, as a set
RequestedVersions == {eng_in.versions[i] : i \in 1..Len(eng_in.versions)}

\* the record holds exactly the texts the files hold for its verse, under
\* the versions that have text, and no key for the other versions
RecordMatchesFiles(rec, book_id, chapter) ==
    /\ \A ver \in RequestedVersions :
          (\E j \in 1..Len(rec.texts) : rec.texts[j].k = ver)
              <=> HasText(files, CacheKey(ver, book_id, chapter), rec.verse)
    /\ \A j \in 1..Len(rec.texts) :
          /\ rec.texts[j].k \in RequestedVersions
          /\ rec.texts[j].t = VerseText(rec.texts[j].k, book_id, chapter, rec.verse)
          /\ \A i \in 1..Len(rec.texts) : rec.texts[i].k = rec.texts[j].k => i = j

ChapterDataAgrees(out, book_id, first_count) ==
    /\ Len(out.data) = (IF book_id = NoBookId THEN 0 ELSE first_count)
    /\ \A i \in 1..Len(out.data) : out.data[i].verse = i
    /\ \A f \in out.fetched : f[3] <= first_count

\* C6: get_chapter_data returns exactly as many verse records as the first
\* translation of the list has verses in the chapter (none if it has 0, even
\* when a later translation has the chapter), and fetches no verse number
\* above that count from any translation.
C6_FirstTranslationCount ==
    Called("get_chapter_data") =>
        ChapterDataAgrees(Returned("get_chapter_data"), EngineBookId,
            FileLineCount(files, CacheKey(eng_in.versions[1], EngineBookId, eng_in.chapter)))

\* "cuv" listed first holds one verse, "kjv" holds two: one record is returned
C6_Witness ==
    /\ Called("get_chapter_data")
    /\ eng_in.versions = <<"cuv", "kjv">> /\ eng_in.chapter = 1
    /\ EngineBookId = CorpusBookId
    /\ FileLineCount(files, CacheKey("cuv", CorpusBookId, 1)) = 1
    /\ FileLineCount(files, CacheKey("kjv", CorpusBookId, 1)) = 2
    /\ Len(Returned("get_chapter_data").data) = 1

RangeDataAgrees(out, book_id, chapter, verse_start, verse_end) ==
    /\ Len(out.data) = verse_end - verse_start + 1
    /\ \A i \in 1..Len(out.data) :
          /\ out.data[i].verse = verse_start + i - 1
          /\ RecordMatchesFiles(out.data[i], book_id, chapter)

\* C7: for a resolvable book and start <= end, get_verse_range_data returns
\* one record per verse number start..end in ascending order, without
\* clamping to the chapter length; a translation without text for a verse is
\* a missing key of that verse's record.
C7_OneRecordPerVerse ==
    (Called("get_verse_range_data") /\ EngineBookId # NoBookId
        /\ eng_in.verse_start <= eng_in.verse_end) =>
        RangeDataAgrees(Returned("get_verse_range_data"), EngineBookId, eng_in.chapter,
                        eng_in.verse_start, eng_in.verse_end)

\* a range that runs past the end of every translation's chapter: its last
\* record holds no translation key
C7_Witness ==
    /\ Called("get_verse_range_data")
    /\ EngineBookId # NoBookId
    /\ eng_in.verse_start = 1 /\ eng_in.verse_end = MaxVerses + 1
    /\ Len(eng_in.versions) = 2
    /\ Len(Returned("get_verse_range_data").data) = MaxVerses + 1
    /\ Len(Returned("get_verse_range_data").data[1].texts) = 1
    /\ Returned("get_verse_range_data").data[MaxVerses + 1].texts = <<>>

\* some requested translation holds text for the verse of the request
SomeVersionHasText ==
    \E ver \in RequestedVersions :
        HasText(files, CacheKey(ver, EngineBookId, eng_in.chapter), eng_in.verse_start)

\* the statement as the specification words it: "c:v" and "c:v-v" give the
\* same verse list whether or not any translation has text for verse v
C8_SingleEqualsRangeAlways ==
    Called("range") => Returned("single").data = Returned("range").data

\* C8 (amended): "c:v" and "c:v-v" give the same verse list when the book is
\* unknown or some requested translation has text for verse v; when the book
\* is known and no translation has text, "c:v" gives the empty list and
\* "c:v-v" gives one record for v without translation keys.
C8_SingleEqualsRangeWithText ==
    Called("range") =>
        IF EngineBookId = NoBookId \/ SomeVersionHasText
        THEN Returned("single").data = Returned("range").data
        ELSE /\ Returned("single").data = <<>>
             /\ Returned("range").data = <<[verse |-> eng_in.verse_start, texts |-> <<>>]>>

\* a verse past the end of the chapter, for a known book
C8_Witness ==
    /\ Called("range")
    /\ EngineBookId # NoBookId
    /\ ~SomeVersionHasText
    /\ eng_in.verse_start = MaxVerses + 1
    /\ Returned("single").data = <<>>
    /\ Len(Returned("range").data) = 1

(***************************************************************************)
(* SpecRender: a verse list rendered as one page, and its tail rendered    *)
(* as a batch                                                              *)
(***************************************************************************)
\* the chapters the rendered verses are taken from
RenderChapters == {3, 12}

\* the keys a verse record may hold, in the order the engine fills them in
RecordKeys == {<<>>, <<"cuv">>, <<"kjv">>, <<"cuv", "kjv">>}

\* a verse record as get_verse_range_data builds it
VerseRecord(chapter, verse, keys) ==
    [verse |-> verse,
     texts |-> [j \in 1..Len(keys) |->
                  [k |-> keys[j], t |-> VerseText(keys[j], CorpusBookId, chapter, verse)]]]

\* the verse lists of n consecutive verses of the chapter from verse 1 on
VerseLists(chapter, n) ==
    {[i \in 1..n |-> VerseRecord(chapter, i, ks[i])] : ks \in [1..n -> RecordKeys]}

InitRender ==
    /\ MetaIdle
    /\ UiIdle
    /\ StoreIdle
    /\ ParserIdle
    /\ PageIdle
    /\ RepoIdle
    /\ EngineIdle
    /\ \E n \in 1..MaxListLen, c \in RenderChapters :
         render_in \in [chapter : {c}, verse_data : VerseLists(c, n), k : 0..n,
                        versions : {<<"cuv">>, <<"cuv", "kjv">>}]
    /\ render_out = <<>>

\* render_bible_verses(book, chapter, L)
RenderFull ==
    /\ Len(render_out) = 0
    /\ render_out' = Append(render_out,
          render_bible_verses(BooksMetadata[2].name, render_in.chapter,
                              render_in.verse_data).rows)
    /\ UNCHANGED <<parserVars, metaVars, uiVars, storeVars, repoVars, engineVars, render_in, pageVars>>

\* render_verses_html_only(chapter, L[k:], versions, start_color_index = k)
RenderSplit ==
    /\ Len(render_out) = 1
    /\ render_out' = Append(render_out,
          render_verses_html_only(render_in.chapter,
              Drop(render_in.verse_data, render_in.k), render_in.versions, render_in.k))
    /\ UNCHANGED <<parserVars, metaVars, uiVars, storeVars, repoVars, engineVars, render_in, pageVars>>

NextRender ==
    \/ RenderFull
    \/ RenderSplit

SpecRender == InitRender /\ [][NextRender]_vars

\* the verse number a rendered row shows the text of
VerseOfRow(row) == row.text[4]

\* C2: the color class render_verses_html_only gives to the i-th verse of
\* L[k:] when called with start_color_index = k is the color class
\* render_bible_verses gives to the verse at index k+i of L rendered as one
\* page; the verses at indices k-1 and k get different classes.
C2_SplitEqualsCombined ==
    Len(render_out) = 2 =>
        \A i \in 1..Len(render_out[2]) :
            /\ \A j \in 1..Len(render_out[1]) :
                  /\ VerseOfRow(render_out[1][j]) = VerseOfRow(render_out[2][i])
                        => render_out[1][j].color = render_out[2][i].color
                  /\ VerseOfRow(render_out[1][j]) = render_in.k
                        /\ VerseOfRow(render_out[2][i]) = render_in.k + 1
                        => render_out[1][j].color # render_out[2][i].color
            /\ render_out[2][i].color
                  = ColorClass(VerseOfRow(render_out[2][i]) - 1)

\* a list of three verses split before its second verse, both verses on
\* either side of the split having rows
C2_Witness ==
    /\ Len(render_out) = 2
    /\ Len(render_in.verse_data) = 3 /\ render_in.k = 1
    /\ \E i \in 1..Len(render_out[2]), j \in 1..Len(render_out[1]) :
          /\ VerseOfRow(render_out[1][j]) = 1
          /\ VerseOfRow(render_out[2][i]) = 2
          /\ render_out[1][j].color = "color-red"
          /\ render_out[2][i].color = "color-blue"

(***************************************************************************)
(* The projected Bible page: projectBibleVerse, the triggers of the page,  *)
(* the forwarding of its commands, the pagination handlers of the bridge   *)
(* and the scripts they run in the page                                    *)
(***************************************************************************)
\* two translations of chapters 1 (three verses) and 2 (two verses) of John
FullCorpus ==
    [k \in {CacheKey(v, CorpusBookId, c) : v \in {"cuv", "kjv"}, c \in {1, 2}} |->
        ChapterLines(k[1], k[2], k[3],
                     IF k[3] = 1 THEN <<TRUE, TRUE, TRUE>> ELSE <<TRUE, TRUE>>)]

\* the same chapters with an empty line for 1:2 in "cuv" and for 1:1 in "kjv"
GappedCorpus ==
    [k \in DOMAIN FullCorpus |->
        ChapterLines(k[1], k[2], k[3],
            IF k[3] = 2 THEN <<TRUE, TRUE>>
            ELSE IF k[1] = "cuv" THEN <<TRUE, FALSE, TRUE>>
            ELSE <<FALSE, TRUE, TRUE>>)]

\* the references typed in the control panel: "1:1", "1:2", "1 2-3", "2", "2:2",
\* "3", "2 3-4", a range past the last verse of chapter 2, and "1 2-4", a
\* range that ends past the last verse of chapter 1
PageRefs ==
    {<<"1", ":", "1">>, <<"1", ":", "2">>, <<"1", " ", "2", "-", "3">>,
     <<"2">>, <<"2", ":", "2">>, <<"3">>, <<"2", " ", "3", "-", "4">>,
     <<"1", " ", "2", "-", "4">>}

PageVersionLists == {<<"cuv", "kjv">>, <<"kjv">>, <<"cuv">>}

\* the number of rows the viewport holds: none, two, or more than any page has
PageFits == {0, 2, 99}

\* the references and viewports of the projections that race with pagination
RaceRefs == {<<"1", ":", "1">>, <<"1", ":", "2">>}

RaceFits == {0, 99}

\* the commands and scripts under way between the page and the bridge
InFlight == Len(proj_titles) + Len(main_titles) + Len(scripts)

\* webview.SetPage(html_content, ""): the rows and bibleState of the new document
SetPage(html, fit) ==
    [loaded |-> TRUE, rows |-> html.rows, state |-> html.state, fit |-> fit]

\* ProjectionWindow.show_html: the page is not reloaded when the same html is
\* shown again without preserve_scroll
show_html(html, preserve_scroll, fit) ==
    IF shown.content_type = "html" /\ shown.html = html /\ ~preserve_scroll
    THEN UNCHANGED <<page, shown, stale>>
    ELSE /\ page' = SetPage(html, fit)
         /\ shown' = [content_type |-> "html", html |-> html]
         /\ stale' = InFlight

\* hide_projection of the windows named, then _show_window of the window w
ShowOnly(w, hidden) == (visible \ hidden) \cup {w}

\* _show_window: a window that is not shown is shown and a ShowFullScreen(True)
\* is scheduled with wx.CallLater; hide_projection cancels nothing
CallLater(w, hidden) ==
    IF w \in visible \ hidden THEN timers ELSE [timers EXCEPT ![w] = @ + 1]

\* actual_range: "chapter:start-end", or "chapter:start" when start = end
ActualRange(chapter, actual_start, actual_end) ==
    IF actual_start # actual_end
    THEN TypedRangeForm(":", chapter, actual_start, actual_end)
    ELSE TypedForm(":", chapter, actual_start)

\* update_script: the value of the verse input and currentProjection.endVerse
UpdateScript(chapter, verse_data) ==
    [actual_range |-> ActualRange(chapter, verse_data[1].verse,
                                  verse_data[Len(verse_data)].verse),
     endVerse |-> verse_data[Len(verse_data)].verse]

\* "if verse_data:" of projectBibleVerse: render, hide the Hymn and Agenda
\* windows, show the page and queue the update script, else report the error
ProjectResult(result, preserve_scroll, fit) ==
    IF Len(result.data) > 0
    THEN /\ show_html(render_bible_verses(result.book, result.chapter, result.data),
                      preserve_scroll, fit)
         /\ visible' = ShowOnly("Bible", {"Hymn", "Agenda"})
         /\ timers' = CallLater("Bible", {"Hymn", "Agenda"})
         /\ update_script' = <<UpdateScript(result.chapter, result.data)>>
    ELSE UNCHANGED <<page, shown, stale, visible, timers, update_script>>

\* the bridge handling CMD:projectBibleVerse
projectBibleVerse(book, verse_ref, versions, preserve_scroll, fit) ==
    /\ ProjectResult(
          parse_and_get_verses(cache, files, NormalizeVerseRef(verse_ref), book, versions),
          preserve_scroll, fit)
    /\ cache' = CacheAfter(cache, files,
          ParseAndGetKeys(cache, files, NormalizeVerseRef(verse_ref), book, versions))
    /\ UNCHANGED <<parserVars, metaVars, webviews, storeVars, files, engineVars, renderVars,
                   proj_titles, main_titles, scripts>>

\* loadMoreVerses()
loadMoreVerses ==
    /\ page' = Loading(page)
    /\ proj_titles' = Append(proj_titles, LoadMoreRequest(page))

\* loadPreviousVerses()
loadPreviousVerses ==
    IF AtBeginningOfBook(page)
    THEN /\ page' = [page EXCEPT !.state.reachedStart = TRUE]
         /\ UNCHANGED proj_titles
    ELSE /\ page' = Loading(page)
         /\ proj_titles' = Append(proj_titles, LoadPreviousRequest(page))

\* checkAndLoadContent()
checkAndLoadContent(nearTop, nearBottom) ==
    IF nearTop /\ ~page.state.loading /\ ~page.state.reachedStart
    THEN loadPreviousVerses
    ELSE /\ nearBottom /\ ~page.state.loading /\ ~page.state.reachedEnd
         /\ loadMoreVerses

\* a keydown listener that asks for verses whatever reachedEnd and reachedStart say
keydownUngated(key) ==
    IF key = "ArrowDown"
    THEN /\ IsNotScrollable(page) /\ ~page.state.loading
         /\ loadMoreVerses
    ELSE /\ IsNotScrollable(page) /\ ~page.state.loading
         /\ loadPreviousVerses

\* the keydown listener of the page
keydown(key) ==
    IF key = "ArrowDown"
    THEN /\ IsNotScrollable(page) /\ ~page.state.loading /\ ~page.state.reachedEnd
         /\ loadMoreVerses
    ELSE /\ IsNotScrollable(page) /\ ~page.state.loading /\ ~page.state.reachedStart
         /\ loadPreviousVerses

\* the operator projects a reference while no pagination command is under way
ProjectWhenIdle ==
    /\ InFlight = 0
    /\ \E ref \in PageRefs, versions \in PageVersionLists,
          preserve_scroll \in BOOLEAN, fit \in PageFits :
          projectBibleVerse(BooksMetadata[2].name, ref, versions, preserve_scroll, fit)

\* the operator projects a reference at any time
ProjectBibleVerse ==
    /\ InFlight < MaxInFlight
    /\ \E ref \in RaceRefs, fit \in RaceFits :
          projectBibleVerse(BooksMetadata[2].name, ref, <<"cuv", "kjv">>, FALSE, fit)

\* the page was scrolled (it is taller than the viewport) and the debounce ran out
Scroll ==
    /\ page.loaded /\ ~IsNotScrollable(page)
    /\ \E nearTop, nearBottom \in BOOLEAN : checkAndLoadContent(nearTop, nearBottom)
    /\ UNCHANGED <<parserVars, metaVars, uiVars, storeVars, repoVars, engineVars, renderVars,
                   shown, main_titles, scripts, stale>>

\* an arrow key was pressed in the page
KeyDown ==
    /\ page.loaded
    /\ \E key \in {"ArrowDown", "ArrowUp"} : keydown(key)
    /\ UNCHANGED <<parserVars, metaVars, uiVars, storeVars, repoVars, engineVars, renderVars,
                   shown, main_titles, scripts, stale>>

\* ProjectionWindow.on_title_changed and _forward_command: the CMD title is
\* set as the title of the main webview
ForwardCommand ==
    /\ Len(proj_titles) > 0
    /\ main_titles' = Append(main_titles, Head(proj_titles))
    /\ proj_titles' = Tail(proj_titles)
    /\ UNCHANGED <<parserVars, metaVars, uiVars, storeVars, repoVars, engineVars, renderVars, page, shown, scripts, stale>>

\* the bridge handling CMD:loadMoreBibleVerses
LoadMoreBibleVerses ==
    /\ Len(main_titles) > 0
    /\ Head(main_titles).cmd = "loadMoreBibleVerses"
    /\ scripts' = Append(scripts, loadMoreBibleVerses(cache, files, Head(main_titles)))
    /\ cache' = CacheAfter(cache, files,
          LoadMoreKeysOf(cache, files, Head(main_titles),
              RangeWithText(cache, files, Head(main_titles).book,
                  Head(main_titles).chapter, Head(main_titles).startVerse,
                  Head(main_titles).endVerse, Head(main_titles).versions)))
    /\ main_titles' = Tail(main_titles)
    /\ UNCHANGED <<parserVars, metaVars, uiVars, storeVars, files, engineVars, renderVars, page, shown, proj_titles, stale>>

\* the bridge handling CMD:loadPreviousBibleVerses
LoadPreviousBibleVerses ==
    /\ Len(main_titles) > 0
    /\ Head(main_titles).cmd = "loadPreviousBibleVerses"
    /\ scripts' = Append(scripts, loadPreviousBibleVerses(cache, files, Head(main_titles)))
    /\ cache' = CacheAfter(cache, files,
          LoadPreviousKeysOf(cache, files, Head(main_titles),
              RangeWithText(cache, files, Head(main_titles).book,
                  Head(main_titles).chapter, Head(main_titles).startVerse,
                  Head(main_titles).endVerse, Head(main_titles).versions)))
    /\ main_titles' = Tail(main_titles)
    /\ UNCHANGED <<parserVars, metaVars, uiVars, storeVars, files, engineVars, renderVars, page, shown, proj_titles, stale>>

\* wx.CallAfter ran the oldest queued script in the Bible webview
ScriptRan ==
    /\ scripts' = Tail(scripts)
    /\ stale' = IF stale > 0 THEN stale - 1 ELSE 0
    /\ UNCHANGED <<parserVars, metaVars, uiVars, storeVars, repoVars, engineVars, renderVars,
                   shown, proj_titles, main_titles>>

\* append_script: window.appendBibleVerses(versesHTML, last_verse, chapter)
RunAppendScript ==
    /\ Len(scripts) > 0
    /\ Head(scripts).kind = "append"
    /\ page' = appendBibleVerses(page, Head(scripts).html, Head(scripts).verse,
                                 Head(scripts).chapter)
    /\ ScriptRan

\* prepend_script: window.prependBibleVerses(versesHTML, first_verse, chapter)
RunPrependScript ==
    /\ Len(scripts) > 0
    /\ Head(scripts).kind = "prepend"
    /\ page' = prependBibleVerses(page, Head(scripts).html, Head(scripts).verse,
                                  Head(scripts).chapter)
    /\ ScriptRan

\* end_script
RunEndScript ==
    /\ Len(scripts) > 0
    /\ Head(scripts).kind = "end"
    /\ page' = [page EXCEPT !.state.reachedEnd = TRUE, !.state.loading = FALSE]
    /\ ScriptRan

\* start_script
RunStartScript ==
    /\ Len(scripts) > 0
    /\ Head(scripts).kind = "start"
    /\ page' = [page EXCEPT !.state.reachedStart = TRUE, !.state.loading = FALSE]
    /\ ScriptRan

\* after construction: nothing projected, nothing cached, nothing under way
InitPage ==
    /\ MetaIdle
    /\ UiIdle
    /\ StoreIdle
    /\ ParserIdle
    /\ EngineIdle
    /\ RenderIdle
    /\ files \in {FullCorpus, GappedCorpus}
    /\ cache = <<>>
    /\ PageIdle

InitRace ==
    /\ MetaIdle
    /\ UiIdle
    /\ StoreIdle
    /\ ParserIdle
    /\ EngineIdle
    /\ RenderIdle
    /\ files \in {FullCorpus, GappedCorpus}
    /\ cache = <<>>
    /\ PageIdle

Paginate ==
    \/ Scroll
    \/ KeyDown
    \/ ForwardCommand
    \/ LoadMoreBibleVerses
    \/ LoadPreviousBibleVerses
    \/ RunAppendScript
    \/ RunPrependScript
    \/ RunEndScript
    \/ RunStartScript

NextPage == ProjectWhenIdle \/ Paginate

\* pagination with projections only between pagination requests
SpecPage == InitPage /\ [][NextPage]_vars

Next == ProjectBibleVerse \/ Paginate

\* pagination with projections at any time
Spec == InitRace /\ [][Next]_vars

\* the chapter and verse a displayed row shows the text of
ShownVerse(row) == <<row.text[3], row.text[4]>>

\* the rows of one verse share a color class and the rows of two consecutive
\* displayed verses differ in it
AlternatingColors(rows) ==
    \A i \in 1..(Len(rows) - 1) :
        (ShownVerse(rows[i]) = ShownVerse(rows[i + 1]))
            <=> (rows[i].color = rows[i + 1].color)

\* the page still starts with the rows it was rendered with: nothing was prepended
OnlyAppended ==
    /\ Len(shown.html.rows) <= Len(page.rows)
    /\ Take(page.rows, Len(shown.html.rows)) = shown.html.rows

\* C1: after the bridge has handled any sequence of loadMoreBibleVerses
\* requests, each batch rendered with start_color_index = the number of rows
\* already displayed, all rows of one verse carry the same color class and
\* every two consecutive displayed verses carry different color classes,
\* also on either side of the seam between batches, for every number of
\* translations.
C1_AppendedRowsAlternate ==
    (page.loaded /\ AlternatingColors(shown.html.rows) /\ OnlyAppended)
        => AlternatingColors(page.rows)

\* C3: when the bridge has handled loadPreviousBibleVerses, the color class
\* of the last verse of the batch to prepend differs from the color class of
\* the row that is first in the container, for every number of verses and of
\* translations and both colors of that first row.
C3_PrependedSeamAlternates ==
    (Len(scripts) > 0 /\ Head(scripts).kind = "prepend"
        /\ Len(Head(scripts).html) > 0 /\ Len(page.rows) > 0)
        => Head(scripts).html[Len(Head(scripts).html)].color # page.rows[1].color

\* a label of the form chapter:verse
IsVerseLabel(label) == \E k \in 1..Len(label) : label[k] = ":"

\* C4: after any sequence of scroll- or key-triggered pagination requests and
\* their append and prepend responses on a projected page, no chapter:verse
\* is displayed more than once in the verses container.
C4_NoVerseDisplayedTwice ==
    page.loaded =>
        \A i \in 1..Len(page.rows), j \in 1..Len(page.rows) :
            i # j =>
                /\ page.rows[i].text # page.rows[j].text
                /\ IsVerseLabel(page.rows[i].label)
                      => page.rows[i].label # page.rows[j].label

\* a page that verses were prepended to and appended to, now showing a whole
\* chapter and the start of the next in two translations
C4_Witness ==
    /\ page.loaded
    /\ InFlight = 0
    /\ page.state.startVerse < shown.html.state.startVerse
    /\ page.state.endChapter > shown.html.state.endChapter
    /\ Len(page.state.versions) = 2
    /\ Len(page.rows) >= 8

\* C5: no pagination request is issued while an earlier one is outstanding
\* (sent, its append, prepend or reached-end/start response not yet run in
\* the page), and the page's loading flag is true as long as one is.
C5_OneRequestOutstanding ==
    /\ InFlight <= 1
    /\ InFlight = 1 => page.state.loading

\* the step issues a pagination request: a CMD title is set by the page
RequestIssued(cmd) ==
    /\ Len(proj_titles') = Len(proj_titles) + 1
    /\ proj_titles'[Len(proj_titles')].cmd = cmd

\* C24: on a freshly rendered page reachedStart and reachedEnd are false;
\* no loadMoreBibleVerses request is issued by a page whose reachedEnd is
\* true and no loadPreviousBibleVerses request by a page whose reachedStart
\* is true.
C24_FlagsGateRequests ==
    /\ [](shown.content_type = "html" =>
            ~shown.html.state.reachedEnd /\ ~shown.html.state.reachedStart)
    /\ [][/\ RequestIssued("loadMoreBibleVerses") => ~page.state.reachedEnd
          /\ RequestIssued("loadPreviousBibleVerses") => ~page.state.reachedStart]_vars

\* a page that has reached both ends of the book, nothing under way, keys
\* still arriving
C24_Witness ==
    /\ page.loaded
    /\ page.state.reachedEnd /\ page.state.reachedStart
    /\ IsNotScrollable(page)
    /\ ~page.state.loading /\ InFlight = 0

\* the chapter and verse of the first and of the last displayed row; of the
\* pagination state when no row is displayed
FirstDisplayed(pg) ==
    IF Len(pg.rows) > 0 THEN ShownVerse(pg.rows[1])
    ELSE <<pg.state.startChapter, pg.state.startVerse>>

LastDisplayed(pg) ==
    IF Len(pg.rows) > 0 THEN ShownVerse(pg.rows[Len(pg.rows)])
    ELSE <<pg.state.endChapter, pg.state.endVerse>>

\* (chapter, verse) a comes before b in the book
Precedes(a, b) == a[1] < b[1] \/ (a[1] = b[1] /\ a[2] < b[2])

\* the verses of the book that have text in a translation of the page
VersesWithText(pg) ==
    {cv \in (1..2) \X (1..3) :
        \E i \in 1..Len(pg.state.versions) :
            HasText(files, CacheKey(pg.state.versions[i], CorpusBookId, cv[1]), cv[2])}

\* C25: reachedStart becomes true only when no verse with text precedes the
\* first displayed verse in the book, and reachedEnd becomes true only when
\* no verse with text follows the last displayed verse.
C25_ReachedOnlyAtEnds ==
    [][/\ (~page.state.reachedStart /\ page'.state.reachedStart) =>
              \A cv \in VersesWithText(page') : ~Precedes(cv, FirstDisplayed(page'))
       /\ (~page.state.reachedEnd /\ page'.state.reachedEnd) =>
              \A cv \in VersesWithText(page') : ~Precedes(LastDisplayed(page'), cv)]_vars

\* C27: a pagination response that was requested by a document the Bible
\* webview no longer holds neither inserts rows into the current document
\* nor changes its pagination state.
C27_LateResponseNotApplied ==
    [][(Len(scripts) > 0 /\ scripts' = Tail(scripts) /\ stale > 0) =>
          /\ page'.rows = page.rows
          /\ page'.state = page.state]_vars

\* C29: after a full render and any appends and prepends, the pagination
\* state names the first and the last displayed verse, and the displayed
\* verses are in strictly increasing (chapter, verse) order.
C29_StateMatchesDisplay ==
    (page.loaded /\ Len(page.rows) > 0) =>
        /\ <<page.state.startChapter, page.state.startVerse>> = ShownVerse(page.rows[1])
        /\ <<page.state.endChapter, page.state.endVerse>> = ShownVerse(page.rows[Len(page.rows)])
        /\ \A i \in 1..(Len(page.rows) - 1) :
              \/ ShownVerse(page.rows[i]) = ShownVerse(page.rows[i + 1])
              \/ Precedes(ShownVerse(page.rows[i]), ShownVerse(page.rows[i + 1]))

\* the bridge took the oldest forwarded command off the main webview's titles:
\* the step of LoadMoreBibleVerses and of LoadPreviousBibleVerses
CommandHandled == Len(main_titles) > 0 /\ main_titles' = Tail(main_titles)

\* wx.CallAfter ran the oldest queued script, whatever its kind
RunScript == RunAppendScript \/ RunPrependScript \/ RunEndScript \/ RunStartScript

\* the wx event loop keeps running: a title change raised by the page is
\* forwarded, a forwarded command is handled by the bridge and a script
\* queued with wx.CallAfter is run
Delivery ==
    /\ WF_vars(ForwardCommand)
    /\ WF_main_titles(CommandHandled)
    /\ WF_vars(RunScript)

\* pagination with projections at any time, under an event loop that runs
FairSpec == Spec /\ Delivery

MaxTimers == 1

\* str.upper() on the characters of the inputs
UpperChar(c) ==
    CASE c = "a" -> "A"
      [] c = "c" -> "C"
      [] c = "x" -> "X"
      [] OTHER -> c

Upper(s) == [i \in 1..Len(s) |-> UpperChar(s[i])]

UpperClass == {"A", "C", "X"}

AllDigits(s) == \A i \in 1..Len(s) : s[i] \in DigitClass

\* str.zfill(width)
RECURSIVE ZFill(_, _)
ZFill(s, width) == IF Len(s) < width THEN ZFill(<<"0">> \o s, width) ELSE s

NoHymn == <<"None">>

\* self.hymns after load_hymns: hymn id in upper case -> slides id; the second
\* row of hymns.csv has an empty slides id
Hymns ==
    <<[hymn_id |-> <<"C", "0", "2", "1">>, slides_id |-> <<"S">>],
      [hymn_id |-> <<"A", "0", "0", "1">>, slides_id |-> <<>>]>>

InHymns(hymn_id) == \E i \in 1..Len(Hymns) : Hymns[i].hymn_id = hymn_id

\* self.hymns.get(hymn_id): the slides id, empty when the id is not a key
HymnsGet(hymn_id) ==
    IF InHymns(hymn_id)
    THEN Hymns[CHOOSE i \in 1..Len(Hymns) : Hymns[i].hymn_id = hymn_id].slides_id
    ELSE <<>>

\* ^[A-Z]\d+$
LetterAndDigits(s) == Len(s) > 1 /\ s[1] \in UpperClass /\ AllDigits(Tail(s))

\* HymnRepository.normalize_hymn_id on the stripped upper-case input
NormalizeUpper(s) ==
    IF LetterAndDigits(s) THEN <<s[1]>> \o ZFill(Tail(s), 3)
    ELSE IF Len(s) > 0 /\ AllDigits(s) THEN <<"C">> \o ZFill(s, 3)
    ELSE NoHymn

normalize_hymn_id(hymn_input) == NormalizeUpper(Upper(Strip(hymn_input)))

\* ^[A-Z]?\d{1,3}$
LooksLikeHymnId(s) ==
    \/ Len(s) \in 1..3 /\ AllDigits(s)
    \/ Len(s) \in 2..4 /\ LetterAndDigits(s)

\* HymnRepository.is_hymn_id
is_hymn_id(input_str) ==
    \/ InHymns(Upper(Strip(input_str)))
    \/ /\ LooksLikeHymnId(Upper(Strip(input_str)))
       /\ InHymns(normalize_hymn_id(Upper(Strip(input_str))))

\* a URL is a sequence of characters in which a protocol prefix is one element
SlidesUrl(slides_id) ==
    <<"https://", "docs.google.com/presentation/d/">> \o slides_id \o <<"/present">>

NoUrl == <<>>

\* HymnRepository.get_slides_url: None when the slides id is empty or missing
get_slides_url(hymn_input) ==
    IF HymnsGet(Upper(Strip(hymn_input))) # <<>>
    THEN SlidesUrl(HymnsGet(Upper(Strip(hymn_input))))
    ELSE IF HymnsGet(normalize_hymn_id(Upper(Strip(hymn_input)))) # <<>>
    THEN SlidesUrl(HymnsGet(normalize_hymn_id(Upper(Strip(hymn_input)))))
    ELSE NoUrl

\* "if not url.startswith(('http://', 'https://', 'file://'))"
WithProtocol(url) ==
    IF Len(url) > 0 /\ url[1] \in {"http://", "https://", "file://"}
    THEN url
    ELSE <<"https://">> \o url

\* ProjectionWindow.show_url without _show_window: the content of the window
UrlContent(content, url, force_reload) ==
    [content_type |-> "url",
     current_url |-> <<WithProtocol(url)>>,
     current_html_hash |-> content.current_html_hash,
     document |-> IF content.current_url # <<WithProtocol(url)>> \/ force_reload
                  THEN <<"url">> \o WithProtocol(url)
                  ELSE content.document]

\* ProjectionWindow.show_html without _show_window, for the html of an agenda:
\* equal content has an equal hash and is not set again
HtmlContent(content, html_content) ==
    IF content.content_type = "html" /\ content.current_html_hash = <<html_content>>
    THEN content
    ELSE [content_type |-> "html",
          current_url |-> <<>>,
          current_html_hash |-> <<html_content>>,
          document |-> <<"html">> \o html_content]

\* what the control panel sends with showURL and reloadURL
UrlInputs ==
    {<<"2", "1">>, <<"c", "2", "1">>, <<"a", "0", "1">>, <<"9">>,
     <<"x", ".", "o">>, <<"http://", "x", ".", "o">>}

\* the html sent with showAgenda, empty when none is sent
AgendaData == {<<>>, <<"a">>}

\* config.get_agenda_slides_id(): '' when the configuration has none
AgendaSlidesIds == {<<>>, <<"G">>}

\* the references projected while the windows are switched: a chapter of the
\* corpus and one that no file holds
WindowRefs == {<<"1", ":", "1">>, <<"3">>}

\* the variables of the Bible page and of the Bible engine
bibleVars == <<parserVars, metaVars, storeVars, repoVars, engineVars, renderVars, pageVars>>

\* the frame of a command that only shows and hides windows
WindowsOnly == UNCHANGED <<bibleVars, update_script>>

\* CMD:showURL and CMD:reloadURL
ShowURL ==
    \E url \in UrlInputs, force_reload \in BOOLEAN :
        /\ CallLater("Hymn", {"Bible", "Agenda"})["Hymn"] <= MaxTimers
        /\ IF is_hymn_id(url) /\ get_slides_url(url) = NoUrl
           THEN /\ visible' = visible \ {"Bible", "Agenda"}
                /\ UNCHANGED <<webviews, timers>>
           ELSE /\ visible' = ShowOnly("Hymn", {"Bible", "Agenda"})
                /\ timers' = CallLater("Hymn", {"Bible", "Agenda"})
                /\ webviews' = [webviews EXCEPT !["Hymn"] =
                      UrlContent(@, IF is_hymn_id(url) THEN get_slides_url(url) ELSE url,
                                 force_reload)]
        /\ WindowsOnly

\* CMD:showBible: the data is read, the Hymn and Agenda windows are hidden,
\* and show_bible is called with one positional argument more than it takes;
\* the TypeError is caught by the handler's outer except
ShowBible ==
    \E json_ok \in BOOLEAN :
        /\ visible' = IF json_ok THEN visible \ {"Hymn", "Agenda"} ELSE visible
        /\ UNCHANGED <<webviews, timers>>
        /\ WindowsOnly

\* CMD:showAgenda
ShowAgenda ==
    \E agenda_slides_id \in AgendaSlidesIds, data \in AgendaData :
        /\ CallLater("Agenda", {"Bible", "Hymn"})["Agenda"] <= MaxTimers
        /\ IF agenda_slides_id # <<>>
           THEN /\ webviews' = [webviews EXCEPT !["Agenda"] =
                                   UrlContent(@, SlidesUrl(agenda_slides_id), FALSE)]
                /\ visible' = ShowOnly("Agenda", {"Bible", "Hymn"})
                /\ timers' = CallLater("Agenda", {"Bible", "Hymn"})
           ELSE IF data # <<>>
           THEN /\ webviews' = [webviews EXCEPT !["Agenda"] = HtmlContent(@, data)]
                /\ visible' = ShowOnly("Agenda", {"Bible", "Hymn"})
                /\ timers' = CallLater("Agenda", {"Bible", "Hymn"})
           ELSE /\ visible' = visible \ {"Bible", "Hymn"}
                /\ UNCHANGED <<webviews, timers>>
        /\ WindowsOnly

\* CMD:hideProjection
HideProjection ==
    /\ visible' = visible \ {"Bible", "Hymn"}
    /\ UNCHANGED <<webviews, timers>>
    /\ WindowsOnly

\* CMD:showBibleWindow
ShowBibleWindow ==
    /\ CallLater("Bible", {"Hymn", "Agenda"})["Bible"] <= MaxTimers
    /\ visible' = ShowOnly("Bible", {"Hymn", "Agenda"})
    /\ timers' = CallLater("Bible", {"Hymn", "Agenda"})
    /\ UNCHANGED webviews
    /\ WindowsOnly

\* CMD:hideBibleWindow, CMD:hideHymnWindow and CMD:hideAgenda
HideWindow(w) ==
    /\ visible' = visible \ {w}
    /\ UNCHANGED <<webviews, timers>>
    /\ WindowsOnly

HideBibleWindow == HideWindow("Bible")

HideHymnWindow == HideWindow("Hymn")

HideAgenda == HideWindow("Agenda")

\* CMD:projectBibleVerse from the control panel
ProjectBibleVerseCommand ==
    /\ CallLater("Bible", {"Hymn", "Agenda"})["Bible"] <= MaxTimers
    /\ \E ref \in WindowRefs, preserve_scroll \in BOOLEAN :
          projectBibleVerse(BooksMetadata[2].name, ref, <<"cuv", "kjv">>, preserve_scroll, 99)

\* the callback of wx.CallLater(100, ...) in _show_window runs:
\* ShowFullScreen(True, ...) shows the frame when it is not shown
FullScreenTimer ==
    \E w \in Windows :
        /\ timers[w] > 0
        /\ timers' = [timers EXCEPT ![w] = @ - 1]
        /\ visible' = visible \cup {w}
        /\ UNCHANGED webviews
        /\ WindowsOnly

InitWindows ==
    /\ MetaIdle
    /\ UiIdle
    /\ StoreIdle
    /\ ParserIdle
    /\ EngineIdle
    /\ RenderIdle
    /\ files = FullCorpus
    /\ cache = <<>>
    /\ PageIdle

NextWindows ==
    \/ ShowURL
    \/ ShowBible
    \/ ShowAgenda
    \/ HideProjection
    \/ ShowBibleWindow
    \/ HideBibleWindow
    \/ HideHymnWindow
    \/ HideAgenda
    \/ ProjectBibleVerseCommand
    \/ FullScreenTimer

SpecWindows == InitWindows /\ [][NextWindows]_vars

\* C26: after any sequence of bridge commands at most one of the Bible, Hymn
\* and Agenda projection windows is visible
C26_AtMostOneVisible == Cardinality(visible) <= 1

(***************************************************************************)
(* SpecBooks: load_books_metadata on a books.csv, then get_book_id on the  *)
(* table it returned                                                       *)
(***************************************************************************)
MaxRows == 4

JohnName == <<"J", "o", "h", "n">>

\* rows load_books_metadata can read, a row whose chapter count is not a
\* number (the pattern does not find it) and a row whose id expression is
\* found by the pattern but is not an expression
JohnRow == CsvRow(JohnName, Str(39) \o <<"+">> \o Str(4), Str(21))

NumberedJohnRows == {CsvRow(JohnName \o Str(n), Str(61 + n), Str(1)) : n \in 1..3}

GenRow == CsvRow(<<"G", "e", "n">>, <<"1", " ">>, Str(50))

UnmatchedRow == CsvRow(<<"G", "e", "n">>, Str(1), <<"X">>)

BadExprRow == CsvRow(<<"G", "e", "n">>, Str(39) \o <<"+">>, Str(50))

CsvRows == {JohnRow, GenRow, UnmatchedRow, BadExprRow} \cup NumberedJohnRows

\* the files of up to MaxRows different rows, in every order
CsvFiles ==
    UNION {{f \in [1..n -> CsvRows] : \A i, j \in 1..n : i # j => f[i] # f[j]} : n \in 0..MaxRows}

BookQueries == {JohnName, <<"j", "o", "h", "n">>, <<"J">>, <<"J", "o">>, <<"X">>}

InitBooks ==
    /\ ParserIdle
    /\ RepoIdle
    /\ EngineIdle
    /\ RenderIdle
    /\ PageIdle
    /\ StoreIdle
    /\ UiIdle
    /\ books_csv \in CsvFiles
    /\ meta_in \in BookQueries
    /\ meta_out = <<>>

\* books_metadata = load_books_metadata(books_csv_path)
LoadBooksMetadata ==
    /\ meta_out = <<>>
    /\ meta_out' = <<load_books_metadata(books_csv)>>
    /\ UNCHANGED <<parserVars, repoVars, engineVars, renderVars, pageVars, storeVars, uiVars,
                   books_csv, meta_in>>

\* get_book_id(book_name, books_metadata) on the loaded table
GetBookId ==
    /\ Len(meta_out) = 1
    /\ ~meta_out[1].raised
    /\ meta_out' = Append(meta_out, get_book_id(meta_in, meta_out[1].books))
    /\ UNCHANGED <<parserVars, repoVars, engineVars, renderVars, pageVars, storeVars, uiVars,
                   books_csv, meta_in>>

\* get_chapter_count(book_name, books_metadata) for the name get_book_id was asked for
GetChapterCount ==
    /\ Len(meta_out) = 2
    /\ meta_out' = Append(meta_out, get_chapter_count(meta_in, meta_out[1].books))
    /\ UNCHANGED <<parserVars, repoVars, engineVars, renderVars, pageVars, storeVars, uiVars,
                   books_csv, meta_in>>

NextBooks == LoadBooksMetadata \/ GetBookId \/ GetChapterCount

SpecBooks == InitBooks /\ [][NextBooks]_vars

\* the rows of the table whose name equals the query case-insensitively
EqualNames(table, query) == {i \in 1..Len(table) : Lower(table[i].name) = Lower(query)}

\* the rows of the table whose name starts with the query case-insensitively
\* and is no longer than any other such name
ShortestPrefixNames(table, query) ==
    {i \in 1..Len(table) :
        /\ StartsWith(Lower(table[i].name), Lower(query))
        /\ \A j \in 1..Len(table) :
              StartsWith(Lower(table[j].name), Lower(query))
                  => Len(table[i].name) <= Len(table[j].name)}

IdsOf(table, rows) == {table[i].book_id : i \in rows}

NamesOf(table) == {table[i].name : i \in 1..Len(table)}

\* C11: get_book_id returns the id of a name equal to the query
\* case-insensitively when there is one, otherwise the id of a shortest name
\* that starts with the query, otherwise none; with John, John1, John2 and
\* John3 loaded, "John" resolves to the id of John.
C11_ExactThenShortestPrefix ==
    Len(meta_out) = 2 =>
        /\ IF EqualNames(meta_out[1].books, meta_in) # {}
           THEN meta_out[2] \in IdsOf(meta_out[1].books, EqualNames(meta_out[1].books, meta_in))
           ELSE IF ShortestPrefixNames(meta_out[1].books, meta_in) # {}
           THEN meta_out[2] \in IdsOf(meta_out[1].books,
                                      ShortestPrefixNames(meta_out[1].books, meta_in))
           ELSE meta_out[2] = NoBookId
        /\ ( /\ meta_in = JohnName
             /\ {JohnName \o Str(n) : n \in 1..3} \cup {JohnName} \subseteq NamesOf(meta_out[1].books) )
           => meta_out[2] = 43

\* John1, John2, John3 and John loaded with John last, "John" resolved to 43;
\* and a prefix query resolved to the shortest name although it is not the first
C11_Witness ==
    /\ Len(meta_out) = 2
    /\ meta_in = JohnName
    /\ Len(meta_out[1].books) = 4
    /\ meta_out[1].books[4].name = JohnName
    /\ {JohnName \o Str(n) : n \in 1..3} \subseteq NamesOf(meta_out[1].books)
    /\ meta_out[2] = 43

\* a row load_books_metadata can read: found by the pattern, with an id
\* expression that has a value
WellFormedRow(row) == RowMatches(row) /\ ~EvalIdExpr(row.id_expr).raised

\* C17: a row that cannot be parsed, or whose id expression cannot be
\* evaluated, is skipped: load_books_metadata does not raise and returns
\* every well-formed row of the file.
C17_BadRowSkipped ==
    Len(meta_out) >= 1 =>
        /\ ~meta_out[1].raised
        /\ NamesOf(meta_out[1].books) =
              {books_csv[i].name : i \in {j \in 1..Len(books_csv) : WellFormedRow(books_csv[j])}}

\* the chapter counts of the rows of the table that carry the id
ChaptersOfId(table, book_id) ==
    {table[i].chapters : i \in {j \in 1..Len(table) : table[j].book_id = book_id}}

\* C30: for every book name for which get_book_id returns an id, by exact or
\* by prefix match, get_chapter_count returns the chapter count of the book
\* with that id; for a name without an id it returns none.
C30_ChapterCountOfSameBook ==
    Len(meta_out) = 3 =>
        IF meta_out[2] # NoBookId
        THEN meta_out[3] \in ChaptersOfId(meta_out[1].books, meta_out[2])
        ELSE meta_out[3] = None

(***************************************************************************)
(* SpecRepo: calls on one BibleRepository while the chapter files change   *)
(***************************************************************************)
MaxVerseArg == 4

\* chapter files: ASCII lines "a", "", "c"; GB2312 and UTF-8 files of the same
\* two lines; two bytes that are one character in either encoding; a file
\* that is valid in neither
AsciiFile == <<97, 10, 10, 99, 10>>

Gb2312File == <<214, 208, 10, 97>>

Utf8File == <<228, 184, 173, 10, 97>>

EitherFile == <<195, 169>>

NeitherFile == <<214, 208, 10, 228, 184, 173>>

ChapterFiles == {AsciiFile, Gb2312File, Utf8File, EitherFile, NeitherFile}

RepoVersions == {"cuv", "kjv"}

RepoKey(version) == CacheKey(version, CorpusBookId, 3)

RepoKeys == {RepoKey(version) : version \in RepoVersions}

\* the directory trees books/ can be: some of the chapter files exist
Disks == UNION {[S -> ChapterFiles] : S \in SUBSET RepoKeys}

VerseArgs == (0 - 1)..MaxVerseArg

InitRepo ==
    /\ ParserIdle
    /\ EngineIdle
    /\ RenderIdle
    /\ PageIdle
    /\ MetaIdle
    /\ UiIdle
    /\ files = <<>>
    /\ cache = <<>>
    /\ disk \in Disks
    /\ repo_out = <<>>

\* the call made and what it gave back
CallRecord(op, version, args, o) ==
    <<[op |-> op, version |-> version, args |-> args, raised |-> o.raised, value |-> o.value]>>

\* load_chapter returns the verses or raises the error of the load r
LoadOutcome(r) == [raised |-> ~r.ok, value |-> r.verses]

\* a repository method called for version, whose load_chapter gave r and
\* which answers o
Answered(op, version, args, r, o) ==
    /\ repo_out' = CallRecord(op, version, args, o)
    /\ cache' = CacheWith(cache, RepoKey(version), r)
    /\ UNCHANGED <<parserVars, engineVars, renderVars, pageVars, metaVars, uiVars, files, disk>>

LoadChapterAs(version, r) == Answered("load_chapter", version, <<>>, r, LoadOutcome(r))

LoadChapter ==
    \E version \in RepoVersions :
        LoadChapterAs(version, LoadChapterFile(cache, disk, version, CorpusBookId, 3))

GetVerseAs(version, verse, r) ==
    Answered("get_verse", version, <<verse>>, r, GetVerseOf(r, verse))

GetVerse ==
    \E version \in RepoVersions, verse \in VerseArgs :
        GetVerseAs(version, verse, LoadChapterFile(cache, disk, version, CorpusBookId, 3))

GetVerseRangeAs(version, verse_start, verse_end, r) ==
    Answered("get_verse_range", version, <<verse_start, verse_end>>, r,
             GetVerseRangeOf(r, verse_start, verse_end))

GetVerseRange ==
    \E version \in RepoVersions, verse_start \in VerseArgs, verse_end \in VerseArgs :
        /\ verse_start <= verse_end
        /\ GetVerseRangeAs(version, verse_start, verse_end,
                           LoadChapterFile(cache, disk, version, CorpusBookId, 3))

GetChapterVerseCountAs(version, r) ==
    Answered("get_chapter_verse_count", version, <<>>, r, GetChapterVerseCountOf(r))

GetChapterVerseCount ==
    \E version \in RepoVersions :
        GetChapterVerseCountAs(version, LoadChapterFile(cache, disk, version, CorpusBookId, 3))

\* self.cache.clear()
ClearCache ==
    /\ cache' = <<>>
    /\ repo_out' = CallRecord("clear_cache", "", <<>>, [raised |-> FALSE, value |-> <<>>])
    /\ UNCHANGED <<parserVars, engineVars, renderVars, pageVars, metaVars, uiVars, files, disk>>

\* a chapter file is written, replaced or deleted outside the program
FileChanges ==
    /\ disk' \in Disks
    /\ disk' # disk
    /\ \E key \in RepoKeys :
          \A other \in RepoKeys \ {key} :
              /\ other \in DOMAIN disk <=> other \in DOMAIN disk'
              /\ other \in DOMAIN disk => disk'[other] = disk[other]
    /\ UNCHANGED <<parserVars, engineVars, renderVars, pageVars, metaVars, uiVars, files, cache, repo_out>>

NextRepo ==
    \/ LoadChapter
    \/ GetVerse
    \/ GetVerseRange
    \/ GetChapterVerseCount
    \/ ClearCache
    \/ FileChanges

SpecRepo == InitRepo /\ [][NextRepo]_vars

\* the last repository call was op
LastCallIs(op) == repo_out # <<>> /\ repo_out[1].op = op

\* the cache key of the last repository call
LastKey == RepoKey(repo_out[1].version)

\* C12: for a loaded chapter with N verses, get_verse(v) returns line v for
\* 1 <= v <= N and None for v <= 0 and for v > N.
C12_VerseOneIndexed ==
    (LastCallIs("get_verse") /\ LastKey \in DOMAIN cache) =>
        /\ ~repo_out[1].raised
        /\ repo_out[1].value =
              IF 1 <= repo_out[1].args[1] /\ repo_out[1].args[1] <= Len(cache[LastKey])
              THEN cache[LastKey][repo_out[1].args[1]]
              ELSE NoVerse

\* verse 3 of a chapter of three lines was returned, and verse 4 of it was absent
C12_Witness ==
    /\ LastCallIs("get_verse")
    /\ LastKey \in DOMAIN cache
    /\ Len(cache[LastKey]) = 3
    /\ \/ repo_out[1].args = <<3>> /\ repo_out[1].value = <<"c">>
       \/ repo_out[1].args = <<4>> /\ repo_out[1].value = NoVerse

\* the verses of the chapter numbered start..end, both ends inclusive, that exist
VersesNumbered(verses, start, end) ==
    SubSeq(verses, IF start < 1 THEN 1 ELSE start, IF end > Len(verses) THEN Len(verses) ELSE end)

\* C13: for a loaded chapter and start <= end, get_verse_range returns in
\* order exactly the existing verses numbered start..end; for
\* 1 <= start <= end <= N these are end - start + 1 verses.
C13_RangeInclusive ==
    (LastCallIs("get_verse_range") /\ LastKey \in DOMAIN cache) =>
        /\ ~repo_out[1].raised
        /\ repo_out[1].value =
              VersesNumbered(cache[LastKey], repo_out[1].args[1], repo_out[1].args[2])
        /\ (1 <= repo_out[1].args[1] /\ repo_out[1].args[2] <= Len(cache[LastKey]))
              => Len(repo_out[1].value) = repo_out[1].args[2] - repo_out[1].args[1] + 1

\* the bytes decode under neither encoding
Undecodable(bytes) == ~Gb2312Decode(bytes).ok /\ ~Utf8Decode(bytes).ok

\* the chapter file of key is missing or decodes under neither encoding
NoChapterOnDisk(key) == key \notin DOMAIN disk \/ Undecodable(disk[key])

\* what the three reading methods give for a chapter that cannot be loaded
AbsentValue(op) ==
    CASE op = "get_verse" -> NoVerse
      [] op = "get_verse_range" -> <<>>
      [] op = "get_chapter_verse_count" -> 0

ReadingMethods == {"get_verse", "get_verse_range", "get_chapter_verse_count"}

\* the step is a call of a repository method in ops
CallOf(ops) == disk' = disk /\ repo_out' # <<>> /\ repo_out'[1].op \in ops

\* C14: when the chapter file is missing or decodes under neither encoding,
\* get_verse returns None, get_verse_range the empty list and
\* get_chapter_verse_count 0, and none of them raises.
C14_FailedLoadIsAbsent ==
    [][ ( /\ CallOf(ReadingMethods)
          /\ RepoKey(repo_out'[1].version) \notin DOMAIN cache
          /\ NoChapterOnDisk(RepoKey(repo_out'[1].version)) )
        => ( /\ ~repo_out'[1].raised
             /\ repo_out'[1].value = AbsentValue(repo_out'[1].op)
             /\ cache' = cache ) ]_vars

\* get_verse was called for a file that exists and decodes under neither encoding
C14_Witness ==
    /\ LastCallIs("get_verse")
    /\ LastKey \in DOMAIN disk
    /\ LastKey \notin DOMAIN cache
    /\ Undecodable(disk[LastKey])
    /\ repo_out[1].value = NoVerse

\* what a call answered from the cached verses gives
AnswerFromCache(verses, op, args) ==
    CASE op = "load_chapter" -> verses
      [] op = "get_verse" ->
            IF 0 < args[1] /\ args[1] <= Len(verses) THEN verses[args[1]] ELSE NoVerse
      [] op = "get_verse_range" -> Slice(verses, args[1] - 1, args[2])
      [] op = "get_chapter_verse_count" -> Len(verses)

\* C15: once a chapter is in the cache, every later load_chapter, get_verse,
\* get_verse_range and get_chapter_verse_count for its key is answered from
\* the cached verses whatever the file has become, and only clear_cache
\* removes or replaces a cache entry.
C15_CacheIsStable ==
    [][ /\ ~CallOf({"clear_cache"}) =>
              \A key \in DOMAIN cache : key \in DOMAIN cache' /\ cache'[key] = cache[key]
        /\ ( /\ CallOf(ReadingMethods \cup {"load_chapter"})
             /\ RepoKey(repo_out'[1].version) \in DOMAIN cache )
           => ( /\ ~repo_out'[1].raised
                /\ repo_out'[1].value =
                      AnswerFromCache(cache[RepoKey(repo_out'[1].version)],
                                      repo_out'[1].op, repo_out'[1].args) ) ]_vars

\* load_chapter answered with the cached verses although the file is gone or
\* now reads differently
C15_Witness ==
    /\ LastCallIs("load_chapter")
    /\ LastKey \in DOMAIN cache
    /\ repo_out[1].value = cache[LastKey]
    /\ \/ LastKey \notin DOMAIN disk
       \/ ReadChapterFile(disk[LastKey], repo_out[1].version).verses # cache[LastKey]

\* the encoding declared for a translation code: gb2312 for cuv, utf-8 otherwise
Declared(version) == IF version = "cuv" THEN "gb2312" ELSE "utf-8"

Alternate(version) == IF version = "cuv" THEN "utf-8" ELSE "gb2312"

\* what C16 expects of load_chapter reading bytes for version
ExpectedLoad(bytes, version) ==
    IF Decode(bytes, Declared(version)).ok
    THEN [raised |-> FALSE, value |-> VersesOfText(Decode(bytes, Declared(version)).text)]
    ELSE IF Decode(bytes, Alternate(version)).ok
    THEN [raised |-> FALSE, value |-> VersesOfText(Decode(bytes, Alternate(version)).text)]
    ELSE [raised |-> TRUE, value |-> <<>>]

\* C16: load_chapter decodes the file with the declared encoding of the
\* translation whenever that succeeds, with the alternate encoding only after
\* a decode failure, and fails only when the file decodes under neither.
C16_DeclaredThenFallback ==
    [][ ( /\ CallOf({"load_chapter"})
          /\ RepoKey(repo_out'[1].version) \notin DOMAIN cache
          /\ RepoKey(repo_out'[1].version) \in DOMAIN disk )
        => ( /\ repo_out'[1].raised =
                   ExpectedLoad(disk[RepoKey(repo_out'[1].version)], repo_out'[1].version).raised
             /\ repo_out'[1].value =
                   ExpectedLoad(disk[RepoKey(repo_out'[1].version)], repo_out'[1].version).value ) ]_vars

\* cuv loaded from a UTF-8 file through the fallback, and from a file valid
\* in both encodings as GB2312
C16_Witness ==
    /\ LastCallIs("load_chapter")
    /\ repo_out[1].version = "cuv"
    /\ LastKey \in DOMAIN disk
    /\ \/ disk[LastKey] = Utf8File /\ repo_out[1].value = <<<<"U+4E2D">>, <<"a">>>>
       \/ disk[LastKey] = EitherFile /\ repo_out[1].value = <<<<"U+8305">>>>

\* C18: render_bible_verses never produces a document with a title and zero
\* verse rows, the placeholder document is produced instead; this holds for
\* every document the bridge projects for projectBibleVerse.
C18_NoTitleWithoutRows ==
    shown.content_type = "html" => (shown.html.placeholder \/ Len(shown.html.rows) > 0)

\* the verse record has text for the translation
HasTextFor(verse_dict, version) ==
    \E j \in 1..Len(verse_dict.texts) : verse_dict.texts[j].k = version

\* a row of the rendering shows the text of the translation for the verse
RowShown(rows, version, verse) ==
    \E r \in 1..Len(rows) : rows[r].text[1] = version /\ rows[r].text[4] = verse

\* C19: in render_bible_verses and in render_verses_html_only a row is
\* rendered for a verse record and a translation if and only if the record
\* has text for that translation.
C19_RowIffText ==
    /\ Len(render_out) >= 1 =>
          \A i \in 1..Len(render_in.verse_data), version \in {"cuv", "kjv"} :
              HasTextFor(render_in.verse_data[i], version)
                  <=> RowShown(render_out[1], version, render_in.verse_data[i].verse)
    /\ Len(render_out) = 2 =>
          \A i \in (render_in.k + 1)..Len(render_in.verse_data),
             j \in 1..Len(render_in.versions) :
              HasTextFor(render_in.verse_data[i], render_in.versions[j])
                  <=> RowShown(render_out[2], render_in.versions[j],
                               render_in.verse_data[i].verse)

\* row r is the first row of its verse in the rendering
FirstRowOfVerse(rows, r) == \A q \in 1..(r - 1) : rows[q].text[4] # rows[r].text[4]

\* the first row of every verse is labelled chapter:verse, every further row
\* of the verse by the abbreviation of its translation
RowsLabelled(rows, chapter) ==
    \A r \in 1..Len(rows) :
        rows[r].label = IF FirstRowOfVerse(rows, r)
                        THEN TypedForm(":", chapter, rows[r].text[4])
                        ELSE VersionAbbreviation(rows[r].text[1])

\* C20: for every verse with a rendered row, the first rendered row carries
\* the label chapter:verse and each further row of the verse carries the
\* abbreviation of its translation.
C20_FirstRowLabelled ==
    \A n \in 1..Len(render_out) : RowsLabelled(render_out[n], render_in.chapter)

\* the result parse_and_get_verses gives the same reference under another book
SingleResultFor(book) ==
    parse_and_get_verses(cache, files, SingleRef, book, eng_in.versions)

\* the book resolves against the metadata table and its chapter has no text
\* for the reference
FoundButEmpty(book) ==
    /\ get_book_id(book, BooksMetadata) # NoBookId
    /\ SingleResultFor(book).chapter # None
    /\ SingleResultFor(book).data = <<>>

\* C21: the result of parse_and_get_verses for a reference whose book does
\* not resolve against the metadata table differs, in something other than
\* the book name the caller passed in, from its result for a resolvable book
\* whose requested chapter has no text.
C21_NotFoundDistinguishable ==
    (Called("single") /\ EngineBookId = NoBookId) =>
        \A book \in EngineBooks :
            FoundButEmpty(book) =>
                [Returned("single") EXCEPT !.book = book] # SingleResultFor(book)

\* the names of the metadata rows that carry the id
NamesOfId(book_id, metadata) ==
    {metadata[i].name : i \in {j \in 1..Len(metadata) : metadata[j].book_id = book_id}}

\* C22: the book name parse_and_get_verses returns is the name the metadata
\* table has for the book whose id the verses were loaded with, also when the
\* book passed in was a prefix or another spelling of that name.
C22_CanonicalBookName ==
    \A call \in {"single", "range"} :
        (Called(call) /\ EngineBookId # NoBookId) =>
            Returned(call).book \in NamesOfId(EngineBookId, BooksMetadata)

\* the number of the last verse of the chapter in the files of the book
ChapterLastVerse(chapter) ==
    LET counts == {FileLineCount(files, CacheKey(version, CorpusBookId, chapter)) :
                      version \in {"cuv", "kjv"}}
    IN  CHOOSE n \in counts : \A m \in counts : m <= n

\* C23: when the bridge has projected a reference, also one whose end verse
\* lies beyond the last verse of the chapter, the endVerse of the pagination
\* state of the projected page (the end of the range in its title) and the
\* end of the actual range reported to the control panel are at most the
\* number of the last verse of the chapter.
C23_EndAtLastVerse ==
    (shown.content_type = "html" /\ update_script # <<>>) =>
        /\ shown.html.state.endVerse <= ChapterLastVerse(shown.html.state.endChapter)
        /\ update_script[1].endVerse <= ChapterLastVerse(shown.html.state.endChapter)

====
